---- MODULE Spec2Model ----
(***************************************************************************)
(* Model of the configuration resolution engine of everett                 *)
(* (src/src/everett/manager.py): key normalisation, the sources, the       *)
(* override stack, ConfigManager.clone / with_namespace / with_options and *)
(* ConfigManager.__call__.                                                 *)
(*                                                                         *)
(* Python strings that the code slices, joins or upper-cases (keys and     *)
(* namespace segments) are sequences of one-character strings, so that     *)
(* "_".join, str.upper and startswith("root:") are computed, not assumed.  *)
(* Configuration values are only compared with "" and handed to a parser,  *)
(* so they are TLA+ strings.  Python values of varying type are tagged     *)
(* records.                                                                *)
(***************************************************************************)
EXTENDS Integers, Sequences, FiniteSets, TLC

\* ------------------------------------------------------------------ bounds
\* longest namespace + key prefix a manager accumulates in the model
MaxNs == 2
\* deepest override stack
MaxStack == 2

\* ------------------------------------------------- python values (tagged)
NO_VALUE == [ty |-> "NO_VALUE"]
PyNone == [ty |-> "None"]
PyStr(x) == [ty |-> "str", s |-> x]
PyList(x) == [ty |-> "list", l |-> x]
PyInt(x) == [ty |-> "int", n |-> x]
PyBool(x) == [ty |-> "bool", b |-> x]

\* ------------------------------------------------------------ key strings
s_empty == << >>
s_a == <<"a">>
s_b == <<"b">>
s_k == <<"k">>
s_K == <<"K">>
s_a_k == <<"a", "_", "k">>
s_root_k == <<"r", "o", "o", "t", ":", "k">>
s_root_b == <<"r", "o", "o", "t", ":", "b">>
s_rootprefix == <<"r", "o", "o", "t", ":">>
s_w == <<"w">>
s_x == <<"x">>
s_y == <<"y">>
s_z == <<"z">>
s_c == <<"c">>
s_bd == <<"b", "d">>

\* str.upper on one character
UpperChar(c) ==
  CASE c = "a" -> "A"
    [] c = "b" -> "B"
    [] c = "k" -> "K"
    [] c = "r" -> "R"
    [] c = "o" -> "O"
    [] c = "t" -> "T"
    [] c = "w" -> "W"
    [] c = "x" -> "X"
    [] c = "y" -> "Y"
    [] c = "z" -> "Z"
    [] OTHER -> c

\* str.upper
Upper(s) == [i \in 1..Len(s) |-> UpperChar(s[i])]

\* "_".join(parts)
RECURSIVE Join(_)
Join(parts) ==
  IF Len(parts) = 0 THEN << >>
  ELSE IF Len(parts) = 1 THEN parts[1]
  ELSE parts[1] \o <<"_">> \o Join(Tail(parts))

\* [part for part in seq if part]
RECURSIVE DropEmpty(_)
DropEmpty(seq) ==
  IF Len(seq) = 0 THEN << >>
  ELSE IF Len(seq[1]) = 0 THEN DropEmpty(Tail(seq))
  ELSE <<seq[1]>> \o DropEmpty(Tail(seq))

\* listify(thing): None -> [], a string -> [thing], anything else unchanged
listify(thing) ==
  IF thing.ty = "None" THEN << >>
  ELSE IF thing.ty = "str" THEN <<thing.s>>
  ELSE thing.l

\* truthiness of an optional list argument (None and [] are falsy)
Truthy(thing) ==
  CASE thing.ty = "None" -> FALSE
    [] thing.ty = "str" -> Len(thing.s) > 0
    [] thing.ty = "list" -> Len(thing.l) > 0
    [] OTHER -> FALSE

\* generate_uppercase_key(key, namespace)
generate_uppercase_key(key, namespace) ==
  IF Truthy(namespace)
  THEN Upper(Join(DropEmpty(listify(namespace)) \o <<key>>))
  ELSE Upper(key)

\* ---------------------------------------------------------------- sources
\* get_key_from_envs(envs, key): the first mapping of envs that contains key
RECURSIVE get_key_from_envs(_, _)
get_key_from_envs(envs, key) ==
  IF Len(envs) = 0 THEN NO_VALUE
  ELSE IF key \in DOMAIN envs[1] THEN PyStr(envs[1][key])
  ELSE get_key_from_envs(Tail(envs), key)

\* reversed(seq)
Reversed(seq) == [i \in 1..Len(seq) |-> seq[Len(seq) + 1 - i]]

\* ConfigOverrideEnv.get
ConfigOverrideEnv_get_oldest_first(key, namespace, stack) ==
  IF Len(stack) = 0 THEN NO_VALUE
  ELSE get_key_from_envs(stack, generate_uppercase_key(key, namespace))

ConfigOverrideEnv_get(key, namespace, stack) ==
  IF Len(stack) = 0 THEN NO_VALUE
  ELSE get_key_from_envs(Reversed(stack), generate_uppercase_key(key, namespace))

\* ConfigDictEnv.__init__: keys are upper-cased when the source is built
ConfigDictEnv(cfg) ==
  [key \in {Upper(k0) : k0 \in DOMAIN cfg} |->
     cfg[CHOOSE k0 \in DOMAIN cfg : Upper(k0) = key]]

\* ConfigDictEnv.get
ConfigDictEnv_get(cfg, key, namespace) ==
  get_key_from_envs(<<cfg>>, generate_uppercase_key(key, namespace))

\* ---------------------------------------------------------------- parsers
\* get_parser(parser): bool is replaced by parse_bool
get_parser(parser) == IF parser = "bool" THEN "parse_bool" ELSE parser

\* the exception classes a parser of the model raises, each with its
\* __mro__ (object left out): KeyboardInterrupt derives from BaseException
\* only, InvalidKeyError from ConfigurationError
ExceptionMRO(exc) ==
  CASE exc = "ConfigurationError" ->
         <<"ConfigurationError", "Exception", "BaseException">>
    [] exc = "InvalidKeyError" ->
         <<"InvalidKeyError", "ConfigurationError", "Exception", "BaseException">>
    [] exc = "KeyboardInterrupt" -> <<"KeyboardInterrupt", "BaseException">>
    [] OTHER -> <<exc, "Exception", "BaseException">>

\* isinstance(exc, cls), as an except clause tests it
IsInstance(exc, cls) ==
  \E i \in 1..Len(ExceptionMRO(exc)) : ExceptionMRO(exc)[i] = cls

\* parsers that raise whatever they are given
RaisingParsers ==
  {"raise_configuration_error", "raise_invalid_key_error",
   "raise_keyboard_interrupt", "raise_key_error"}

Raises(parser) ==
  CASE parser = "raise_configuration_error" -> "ConfigurationError"
    [] parser = "raise_invalid_key_error" -> "InvalidKeyError"
    [] parser = "raise_keyboard_interrupt" -> "KeyboardInterrupt"
    [] OTHER -> "KeyError"

\* parser(val): [raised |-> exception type name or "", v |-> the parsed value]
\*   str(val) is val; int(val) raises ValueError unless val is a numeral;
\*   parse_bool(val) raises ValueError unless val is one of the tokens
Parse(parser, val) ==
  CASE parser \in RaisingParsers -> [raised |-> Raises(parser), v |-> NO_VALUE]
    [] parser = "str" -> [raised |-> "", v |-> PyStr(val)]
    [] parser = "int" ->
         IF val = "1" THEN [raised |-> "", v |-> PyInt(1)]
         ELSE IF val = "2" THEN [raised |-> "", v |-> PyInt(2)]
         ELSE [raised |-> "ValueError", v |-> NO_VALUE]
    [] parser = "parse_bool" ->
         IF val = "1" THEN [raised |-> "", v |-> PyBool(TRUE)]
         ELSE [raised |-> "ValueError", v |-> NO_VALUE]
    [] OTHER -> [raised |-> "TypeError", v |-> NO_VALUE]

\* str(val) of a value that is an int or a bool
StrOf(val) ==
  IF val.ty = "int" THEN (IF val.n = 1 THEN "1" ELSE "2")
  ELSE IF val.b THEN "True" ELSE "False"

\* parser(default): the default is a string, or whatever an Option was
\* given as default; int(1) is 1 and int(True) is 1, str(1) is "1",
\* parse_bool calls val.lower(), which an int or a bool does not have
ParseDefault(parser, default) ==
  IF default.ty = "str" THEN Parse(parser, default.s)
  ELSE CASE parser \in RaisingParsers -> [raised |-> Raises(parser), v |-> NO_VALUE]
         [] parser = "str" -> [raised |-> "", v |-> PyStr(StrOf(default))]
         [] parser = "int" ->
              [raised |-> "",
               v |-> IF default.ty = "int" THEN default
                     ELSE PyInt(IF default.b THEN 1 ELSE 0)]
         [] parser = "parse_bool" -> [raised |-> "AttributeError", v |-> NO_VALUE]
         [] OTHER -> [raised |-> "TypeError", v |-> NO_VALUE]

\* ------------------------------------------------------ component classes
\* Option(default, alternate_keys, doc, parser)
Option(default, alternate_keys, doc, parser) ==
  [default |-> default, alternate_keys |-> alternate_keys, doc |-> doc,
   parser |-> parser]

\* The component classes of the model.  Foo and Bar both declare k, with
\* different parsers and defaults; Foo also declares a_k, a name that is the
\* underscore-join of the segment "a" and the name k.  Empty has no Config.
ClassNames == {"Foo", "Bar", "Empty"}

\* A class hierarchy with a diamond: HB, HI and HE derive from HA, HD and HC
\* from HI and HE.  HI and HC declare no Config of their own.
HierarchyClasses == {"HA", "HB", "HI", "HE", "HD", "HC"}

\* cls.__mro__ without object
ClassMRO(cls) ==
  CASE cls = "HB" -> <<"HB", "HA">>
    [] cls = "HI" -> <<"HI", "HA">>
    [] cls = "HE" -> <<"HE", "HA">>
    [] cls = "HD" -> <<"HD", "HI", "HE", "HA">>
    [] cls = "HC" -> <<"HC", "HI", "HE", "HA">>
    [] cls = "TA" -> <<"TA", "ComponentBase">>
    [] cls = "TB" -> <<"TB", "ComponentBase">>
    [] cls = "TC" -> <<"TC", "TB", "TA", "ComponentBase">>
    [] OTHER -> <<cls>>

\* Option(default=d)
DefaultOption(d) == Option(PyStr(d), PyNone, "", "str")

\* the Config a class declares itself: the (name, Option) pairs of
\* Config.__dict__ in declaration order
OwnConfig(cls) ==
  CASE cls = "Foo" ->
         [has |-> TRUE,
          opts |-> << [name |-> s_k,
                       option |-> Option(NO_VALUE, PyNone, "", "int")],
                      [name |-> s_a_k,
                       option |-> Option(PyStr("2"), PyList(<<s_root_b>>), "", "int")] >>]
    [] cls = "Bar" ->
         [has |-> TRUE,
          opts |-> << [name |-> s_k,
                       option |-> Option(PyStr("x"), PyNone, "", "str")],
                      [name |-> s_b,
                       option |-> Option(NO_VALUE, PyList(<<s_root_k>>), "", "str")] >>]
    [] cls = "HA" ->
         [has |-> TRUE,
          opts |-> << [name |-> s_x, option |-> DefaultOption("x_A")],
                      [name |-> s_y, option |-> DefaultOption("y_A")] >>]
    [] cls = "HB" ->
         [has |-> TRUE,
          opts |-> << [name |-> s_x, option |-> DefaultOption("x_B")] >>]
    [] cls = "HE" ->
         [has |-> TRUE,
          opts |-> << [name |-> s_y, option |-> DefaultOption("y_E")],
                      [name |-> s_z, option |-> DefaultOption("z_E")] >>]
    [] cls = "HD" ->
         [has |-> TRUE,
          opts |-> << [name |-> s_w, option |-> DefaultOption("w_D")] >>]
    [] cls = "TA" ->
         [has |-> TRUE,
          opts |-> << [name |-> s_a, option |-> DefaultOption("")] >>]
    [] cls = "TB" ->
         [has |-> TRUE,
          opts |-> << [name |-> s_b, option |-> DefaultOption("")],
                      [name |-> s_bd, option |-> DefaultOption("")] >>]
    [] cls = "TC" ->
         [has |-> TRUE,
          opts |-> << [name |-> s_b, option |-> DefaultOption("")],
                      [name |-> s_c, option |-> DefaultOption("")] >>]
    [] cls = "Typed" ->
         [has |-> TRUE,
          opts |-> << [name |-> s_k,
                       option |-> Option(PyInt(1), PyNone, "", "int")],
                      [name |-> s_b,
                       option |-> Option(PyBool(TRUE), PyNone, "", "bool")],
                      [name |-> s_a_k,
                       option |-> Option(PyStr("2"), PyNone, "", "int")] >>]
    [] OTHER -> [has |-> FALSE, opts |-> << >>]

\* getattr(subcls, "Config"): the Config of the first class of the MRO that
\* declares one
RECURSIVE ResolveConfig(_)
ResolveConfig(mro) ==
  IF Len(mro) = 0 THEN [has |-> FALSE, opts |-> << >>]
  ELSE IF OwnConfig(mro[1]).has THEN OwnConfig(mro[1])
  ELSE ResolveConfig(Tail(mro))

\* options[attr] = (val, subcls): a dict keeps the position of a key that is
\* already present
DictSet_moves_to_end(options, name, option, cls) ==
  Append(SelectSeq(options, LAMBDA e : e.name # name),
         [name |-> name, option |-> option, cls |-> cls])

DictSet(options, name, option, cls) ==
  IF \E i \in 1..Len(options) : options[i].name = name
  THEN [i \in 1..Len(options) |->
          IF options[i].name = name
          THEN [name |-> name, option |-> option, cls |-> cls]
          ELSE options[i]]
  ELSE Append(options, [name |-> name, option |-> option, cls |-> cls])

RECURSIVE RecordAll(_, _, _)
RecordAll(options, opts, cls) ==
  IF Len(opts) = 0 THEN options
  ELSE RecordAll(DictSet(options, opts[1].name, opts[1].option, cls), Tail(opts), cls)

\* get_config_for_class(cls): walk reversed(cls.__mro__)
RECURSIVE RollUp(_, _)
RollUp(options, rmro) ==
  IF Len(rmro) = 0 THEN options
  ELSE LET cfg == ResolveConfig(ClassMRO(rmro[1]))
       IN RollUp(IF cfg.has THEN RecordAll(options, cfg.opts, rmro[1]) ELSE options,
                 Tail(rmro))

get_config_for_class(cls) == RollUp(<< >>, Reversed(ClassMRO(cls)))

\* ConfigOptions.update(new_options): an option whose key is present is
\* deleted before it is set, which moves it to the end
RECURSIVE ConfigOptions_update(_, _)
ConfigOptions_update(options, new_options) ==
  IF Len(new_options) = 0 THEN options
  ELSE ConfigOptions_update(
         Append(SelectSeq(options, LAMBDA e : e.name # new_options[1].name),
                [name |-> new_options[1].name, option |-> new_options[1].option,
                 cls |-> ""]),
         Tail(new_options))

\* RequiredConfigMixin.get_required_config: options.update(cls.required_config)
\* for cls in reversed(cls.__mro__), skipping the classes for which the
\* attribute lookup raises AttributeError
RECURSIVE RollUpRequired(_, _)
RollUpRequired(options, rmro) ==
  IF Len(rmro) = 0 THEN options
  ELSE LET required_config == ResolveConfig(ClassMRO(rmro[1]))
       IN RollUpRequired(IF required_config.has
                         THEN ConfigOptions_update(options, required_config.opts)
                         ELSE options,
                         Tail(rmro))

get_required_config(cls) == RollUpRequired(<< >>, Reversed(ClassMRO(cls)))

\* self.bound_component_options[key]
HasOption(options, key) == \E i \in 1..Len(options) : options[i].name = key
OptionOf(options, key) ==
  options[CHOOSE i \in 1..Len(options) : options[i].name = key].option

\* --------------------------------------------------------------- managers
\* position 0 of the source table is the ConfigOverrideEnv instance
OverrideEnv == 0

\* ConfigManager.__init__(environments, doc, with_override)
ConfigManager_always_inserts(environments, doc, with_override) ==
  [envs |-> IF with_override THEN <<OverrideEnv>> \o environments
            ELSE environments,
   doc |-> doc,
   with_override |-> with_override,
   namespace |-> << >>,
   bound_component |-> "None",
   bound_component_prefix |-> << >>,
   bound_component_options |-> << >>]

ConfigManager(environments, doc, with_override) ==
  [envs |-> IF with_override
              /\ ~ \E i \in 1..Len(environments) : environments[i] = OverrideEnv
            THEN <<OverrideEnv>> \o environments
            ELSE environments,
   doc |-> doc,
   with_override |-> with_override,
   namespace |-> << >>,
   bound_component |-> "None",
   bound_component_prefix |-> << >>,
   bound_component_options |-> << >>]

\* ConfigManager.get_namespace
get_namespace(self) == self.namespace

\* ConfigManager.clone
clone(self) ==
  [ConfigManager(self.envs, self.doc, self.with_override) EXCEPT
     !.namespace = self.namespace,
     !.bound_component = self.bound_component,
     !.bound_component_prefix = << >>,
     !.bound_component_options = self.bound_component_options]

\* ConfigManager.with_namespace
with_namespace(self, namespace) ==
  LET ns == listify(namespace)
      my_clone == clone(self)
  IN IF Len(ns) = 0 THEN self
     ELSE IF my_clone.bound_component # "None"
     THEN [my_clone EXCEPT !.bound_component_prefix = @ \o ns]
     ELSE [my_clone EXCEPT !.namespace = @ \o ns]

\* ConfigManager.with_options
with_options_keeps_schema(self, component) ==
  LET options == get_config_for_class(component)
      my_clone == clone(self)
  IN IF Len(options) = 0 THEN self
     ELSE [my_clone EXCEPT
             !.bound_component = component,
             !.bound_component_prefix = << >>,
             !.bound_component_options =
                IF self.bound_component # "None" THEN @ ELSE options,
             !.namespace = IF Len(self.bound_component_prefix) > 0
                           THEN @ \o self.bound_component_prefix
                           ELSE @]

with_options_no_flush(self, component) ==
  LET options == get_config_for_class(component)
      my_clone == clone(self)
  IN IF Len(options) = 0 THEN self
     ELSE [my_clone EXCEPT
             !.bound_component = component,
             !.bound_component_prefix = << >>,
             !.bound_component_options = options]

with_options(self, component) ==
  LET options == get_config_for_class(component)
      my_clone == clone(self)
  IN IF Len(options) = 0 THEN self
     ELSE [my_clone EXCEPT
             !.bound_component = component,
             !.bound_component_prefix = << >>,
             !.bound_component_options = options,
             !.namespace = IF Len(self.bound_component_prefix) > 0
                           THEN @ \o self.bound_component_prefix
                           ELSE @]

\* the list attributes of a clone that are the receiver's own list objects:
\* none, clone() hands list(self.envs) to the constructor, copies
\* self.namespace with list() and starts a new bound_component_prefix
clone_aliases_namespace == {"namespace"}

clone_aliases == {}

\* the attributes of holder once with_namespace(namespace) has run on self,
\* for a holder whose lists are those the clone of self was made from:
\* the clone's key prefix or namespace is extended in place
AfterWithNamespace(holder, self, namespace) ==
  IF Len(listify(namespace)) = 0 THEN holder
  ELSE IF self.bound_component # "None"
  THEN [holder EXCEPT !.bound_component_prefix =
          IF "bound_component_prefix" \in clone_aliases
          THEN @ \o listify(namespace) ELSE @]
  ELSE [holder EXCEPT !.namespace =
          IF "namespace" \in clone_aliases THEN @ \o listify(namespace) ELSE @]

\* the attributes of holder once with_options(component) has run on self:
\* the clone's namespace is extended in place by the receiver's key prefix
AfterWithOptions(holder, self, component) ==
  IF Len(get_config_for_class(component)) = 0 THEN holder
  ELSE [holder EXCEPT !.namespace =
          IF "namespace" \in clone_aliases /\ Len(self.bound_component_prefix) > 0
          THEN @ \o self.bound_component_prefix ELSE @]

\* ----------------------------------------------------------------- lookup
\* env.get(key, namespace) for the source at position env of the source
\* table: the override source reads the stack, the others are ConfigDictEnv
env_get(env, key, namespace, stack, cfgs) ==
  IF env = OverrideEnv THEN ConfigOverrideEnv_get(key, namespace, stack)
  ELSE ConfigDictEnv_get(cfgs[env], key, namespace)

\* possible_key.startswith("root:")
StartsWithRoot(possible_key) ==
  /\ Len(possible_key) >= Len(s_rootprefix)
  /\ SubSeq(possible_key, 1, Len(s_rootprefix)) = s_rootprefix

\* possible_key[5:]
StripRoot(possible_key) ==
  SubSeq(possible_key, Len(s_rootprefix) + 1, Len(possible_key))

\* one record of the trace of a lookup: the source asked, the arguments of
\* env.get and the canonical key they stand for
GetCall(env, key, namespace) ==
  [env |-> env, key |-> key, namespace |-> namespace,
   full_key |-> generate_uppercase_key(key, namespace)]

\* all_keys = [key] + alternate_keys (when alternate_keys is truthy)
all_keys_swapped(key, alternate_keys) ==
  IF Truthy(alternate_keys) THEN alternate_keys.l \o <<key>> ELSE <<key>>

all_keys_of(key, alternate_keys) ==
  IF Truthy(alternate_keys) THEN <<key>> \o alternate_keys.l ELSE <<key>>

\* the namespace a candidate is looked up in: None for a root: candidate
use_namespace_kept(candidate, namespace) == PyList(namespace)

use_namespace_of(candidate, namespace) ==
  IF StartsWithRoot(candidate) THEN PyNone ELSE PyList(namespace)

\* the key a candidate is looked up as: the root: prefix is stripped
possible_key_of(candidate) ==
  IF StartsWithRoot(candidate) THEN StripRoot(candidate) ELSE candidate

\* "for env in self.envs": the source asked in round j
SourceAtReversed(envs, j) == envs[Len(envs) + 1 - j]

SourceAt(envs, j) == envs[j]

\* if val == "" and default_if_empty: val = NO_VALUE
treat_empty_kept(val, default_if_empty) == val

treat_empty_whatever_the_flag(val, default_if_empty) ==
  IF val # NO_VALUE /\ val.s = "" THEN NO_VALUE ELSE val

treat_empty(val, default_if_empty) ==
  IF val # NO_VALUE /\ val.s = "" /\ default_if_empty THEN NO_VALUE ELSE val

\* the two nested loops of __call__ ("for possible_key in all_keys",
\* "for env in self.envs"), from candidate i and round j on; gets is the
\* trace of env.get calls made so far
RECURSIVE Scan(_, _, _, _, _, _, _, _, _)
Scan(envs, all_keys, namespace, default_if_empty, stack, cfgs, i, j, gets) ==
  LET possible_key == possible_key_of(all_keys[i])
      use_namespace == use_namespace_of(all_keys[i], namespace)
  IN IF j > Len(envs)
     THEN IF i >= Len(all_keys)
          THEN [found |-> FALSE, val |-> "", use_namespace |-> use_namespace,
                gets |-> gets]
          ELSE Scan(envs, all_keys, namespace, default_if_empty, stack, cfgs,
                    i + 1, 1, gets)
     ELSE LET env == SourceAt(envs, j)
              val == treat_empty(env_get(env, possible_key, use_namespace, stack, cfgs),
                                 default_if_empty)
              gets2 == Append(gets, GetCall(env, possible_key, use_namespace))
          IN IF val # NO_VALUE
             THEN [found |-> TRUE, val |-> val.s, use_namespace |-> use_namespace,
                   gets |-> gets2]
             ELSE Scan(envs, all_keys, namespace, default_if_empty, stack, cfgs,
                       i, j + 1, gets2)

\* the outcome of a lookup: kind is "return" or the name of the exception
\* raised; key, namespace and parser are the attributes an error carries,
\* use_namespace the namespace handed to msg_builder
Outcome(kind, val, gets, key, namespace, parser, use_namespace, msg) ==
  [kind |-> kind, val |-> val, gets |-> gets, key |-> key,
   namespace |-> namespace, parser |-> parser, use_namespace |-> use_namespace,
   msg |-> msg]

\* the arguments of ConfigManager.__call__
CallArgs(key, namespace, default, default_if_empty, alternate_keys, doc, parser, raise_error, raw_value) ==
  [key |-> key, namespace |-> namespace, default |-> default,
   default_if_empty |-> default_if_empty, alternate_keys |-> alternate_keys,
   doc |-> doc, parser |-> parser, raise_error |-> raise_error,
   raw_value |-> raw_value]

\* the exception a lookup ends with when the parser raises exc:
\* "except ConfigurationError: raise" re-raises exc, "except Exception"
\* raises InvalidValueError, anything else is not caught
parser_exception_wraps_all(exc) == "InvalidValueError"

parser_exception(exc) ==
  IF IsInstance(exc, "ConfigurationError") THEN exc
  ELSE IF IsInstance(exc, "Exception") THEN "InvalidValueError"
  ELSE exc

\* if raw_value: parser = str, else: parser = get_parser(parser)
parser_of_call_ignores_raw(raw_value, parser) == get_parser(parser)

parser_of_call(raw_value, parser) ==
  IF raw_value THEN "str" ELSE get_parser(parser)

\* ----------------------------------------------------------- error text
\* A message is a sequence of pieces of text; a canonical key contributes
\* its characters, "\n" is one piece.
\* qualname(parser): the module is left out for a builtin
qualname(parser) ==
  IF parser \in {"str", "int", "bool"} THEN <<parser>>
  ELSE IF parser = "parse_bool" THEN <<"everett.manager", ".", "parse_bool">>
  ELSE <<"tests.test_manager", ".", parser>>

\* str(exc_value) of the exception parser(val) raises: int and parse_bool
\* quote the value, the parsers that raise on purpose give no text
exc_value(parser, val) ==
  CASE parser = "int" -> <<"invalid literal for int() with base 10: '", val, "'">>
    [] parser = "parse_bool" -> <<"'", val, "' is not a valid bool value">>
    [] parser \in RaisingParsers -> << >>
    [] OTHER -> <<"'", parser, "' object is not callable">>

\* str(exc_value) of the exception parser(default) raises
exc_value_of_default(parser, default) ==
  IF default.ty = "str" THEN exc_value(parser, default.s)
  ELSE IF parser = "parse_bool"
  THEN <<"'", default.ty, "' object has no attribute 'lower'">>
  ELSE << >>

\* "\n".join(lines)
RECURSIVE JoinLines(_)
JoinLines(lines) ==
  IF Len(lines) = 0 THEN << >>
  ELSE IF Len(lines) = 1 THEN lines[1]
  ELSE lines[1] \o <<"\n">> \o JoinLines(Tail(lines))

\* the lines build_msg collects, msg first; a line that is not added is
\* written as the empty line, which the join skips
build_msg_lines_key_not_tested(namespace, key, parser, msg, option_doc, config_doc) ==
  LET full_key == generate_uppercase_key(key, namespace)
  IN << msg,
        full_key \o <<" requires a value parseable by ">> \o qualname(parser),
        IF option_doc # "" THEN full_key \o <<" docs: ", option_doc>> ELSE << >>,
        IF config_doc # "" THEN <<"Project docs: ", config_doc>> ELSE << >> >>

build_msg_lines(namespace, key, parser, msg, option_doc, config_doc) ==
  LET has_full_key == Len(key) > 0 /\ parser # "None"
      full_key == generate_uppercase_key(key, namespace)
  IN << msg,
        IF has_full_key
        THEN full_key \o <<" requires a value parseable by ">> \o qualname(parser)
        ELSE << >>,
        IF option_doc # "" /\ has_full_key
        THEN full_key \o <<" docs: ", option_doc>> ELSE << >>,
        IF config_doc # "" THEN <<"Project docs: ", config_doc>> ELSE << >> >>

\* build_msg(namespace, key, parser, msg, option_doc, config_doc)
build_msg(namespace, key, parser, msg, option_doc, config_doc) ==
  JoinLines(SelectSeq(build_msg_lines(namespace, key, parser, msg, option_doc,
                                      config_doc),
                      LAMBDA line : Len(line) > 0))

\* f"{exc_type_name}: {exc_value}" and f"{exc_type_name}: {exc_value} (default value)"
exc_msg(exc_type_name, value, of_default) ==
  <<exc_type_name, ": ">> \o value
    \o (IF of_default THEN <<" (default value)">> ELSE << >>)

\* raise InvalidValueError(msg, ...) / ConfigurationMissingError(msg, ...):
\* the outcome with str(error), the text msg_builder returned
Raise(out, text) ==
  [kind |-> out.kind, val |-> out.val, gets |-> out.gets, key |-> out.key,
   namespace |-> out.namespace, parser |-> out.parser,
   use_namespace |-> out.use_namespace, msg |-> out.msg, text |-> text]

\* ConfigManager.__call__, after the bound-component step: parser choice,
\* candidate list, source scan, default, missing
Resolve(self, key, namespace, default, alternate_keys, doc, parser0, a, stack, cfgs) ==
  LET parser == parser_of_call(a.raw_value, parser0)
      all_keys == all_keys_of(key, alternate_keys)
      r == Scan(self.envs, all_keys, namespace, a.default_if_empty, stack, cfgs,
                1, 1, << >>)
      p == IF r.found THEN Parse(parser, r.val) ELSE ParseDefault(parser, default)
      text(msg) == build_msg(r.use_namespace, key, parser, msg, doc, self.doc)
      wrapped(out, of_default) ==
        IF out.kind = "InvalidValueError"
        THEN Raise(out, text(exc_msg(p.raised,
                                     IF r.found THEN exc_value(parser, r.val)
                                     ELSE exc_value_of_default(parser, default),
                                     of_default)))
        ELSE out
  IN IF r.found
     THEN IF p.raised = ""
          THEN Outcome("return", p.v, r.gets, key, PyList(namespace), parser,
                       r.use_namespace, "")
          ELSE wrapped(Outcome(parser_exception(p.raised), NO_VALUE, r.gets, key,
                               PyList(namespace), parser, r.use_namespace,
                               p.raised),
                       FALSE)
     ELSE IF default # NO_VALUE
     THEN IF p.raised = ""
          THEN Outcome("return", p.v, r.gets, key, PyList(namespace), parser,
                       r.use_namespace, "")
          ELSE wrapped(Outcome(parser_exception(p.raised), NO_VALUE, r.gets, key,
                               PyList(namespace), parser, r.use_namespace,
                               "default value"),
                       TRUE)
     ELSE IF a.raise_error
     THEN Raise(Outcome("ConfigurationMissingError", NO_VALUE, r.gets, key,
                        PyList(namespace), parser, r.use_namespace, ""),
                text(<< >>))
     ELSE Outcome("return", NO_VALUE, r.gets, key, PyList(namespace), parser,
                  r.use_namespace, "")

\* if not (default is NO_VALUE or isinstance(default, str))
default_is_acceptable(default) == default = NO_VALUE \/ default.ty = "str"

\* ConfigManager.__call__ from the bound-component step on
CallBody(self, a, stack, cfgs) ==
  LET bound == self.bound_component # "None"
      key == IF bound
             THEN Join(listify(PyList(self.bound_component_prefix))
                       \o listify(a.namespace) \o <<a.key>>)
             ELSE a.key
      namespace == IF bound THEN self.namespace
                   ELSE self.namespace \o listify(a.namespace)
  IN IF bound
     THEN IF ~ HasOption(self.bound_component_options, key)
          THEN IF a.raise_error
               THEN Outcome("InvalidKeyError", NO_VALUE, << >>, key, PyNone,
                            a.parser, PyNone, "")
               ELSE Outcome("return", PyNone, << >>, key, PyNone, a.parser,
                            PyNone, "")
          ELSE LET option == OptionOf(self.bound_component_options, key)
               IN Resolve(self, key, namespace, option.default,
                          option.alternate_keys, option.doc, option.parser, a,
                          stack, cfgs)
     ELSE Resolve(self, key, namespace, a.default, a.alternate_keys, a.doc,
                  a.parser, a, stack, cfgs)

\* str(default) of a default that is not a string: what a lookup would go on
\* with if the default were not checked first
Call_default_unchecked(self, a, stack, cfgs) ==
  CallBody(self,
           [a EXCEPT !.default = IF default_is_acceptable(@) THEN @
                                 ELSE PyStr("True")],
           stack, cfgs)

\* ConfigManager.__call__
Call(self, a, stack, cfgs) ==
  IF ~ default_is_acceptable(a.default)
  THEN Outcome("ConfigurationError", NO_VALUE, << >>, a.key, PyNone, a.parser,
               PyNone, "default")
  ELSE CallBody(self, a, stack, cfgs)

\* ------------------------------------------------------------------ state
VARIABLES
  cfgs,             \* the ConfigDictEnv sources: cfgs[i] is the cfg of source i
  CONFIG_OVERRIDE,  \* the module-level override stack _CONFIG_OVERRIDE
  mgr,              \* the manager the program holds
  last,             \* the operation performed last, its receiver, arguments
                    \* and outcome
  bound_last,       \* the component of the latest with_options call that
                    \* bound one ("None" before any)
  blocks,           \* the config_override with-blocks and decorated calls
                    \* that are running, outermost first: for each its
                    \* dictionary and the override stack it was entered with
  origin,           \* the manager the program built first, as its attributes
                    \* read now
  caller_list,      \* the list object the program hands to ConfigManager(...)
                    \* as environments, as it reads now
  mgr_holds_caller_list
                    \* whether mgr.envs is that list object itself
                    \* ("self.envs = environments") and not a copy

vars == <<cfgs, CONFIG_OVERRIDE, mgr, last, bound_last, blocks, origin, caller_list,
          mgr_holds_caller_list>>

\* ----------------------------------------------------------------- inputs
\* namespace segments and the namespace arguments built from them
NsArgs ==
  {PyNone, PyStr(s_empty), PyList(<< >>), PyStr(s_a), PyStr(s_b),
   PyList(<<s_b, s_a>>)}

\* keys a caller asks for
Keys == {s_k, s_a_k, s_b}

\* alternate_keys arguments: None, or a list of at most two keys
AltKeys == {s_b, s_root_k}
AltLists ==
  {PyNone, PyList(<< >>)} \cup {PyList(<<x>>) : x \in AltKeys}
    \cup {PyList(<<x, y>>) : x \in AltKeys, y \in AltKeys}

\* values a source holds
Values == {"", "1", "x"}

\* the dictionaries handed to ConfigDictEnv: empty, or one key (written in
\* lower or upper case) with one value
RawKeys == {s_k, s_K, s_a_k, s_b}
DictChoices ==
  {<< >>} \cup {[key \in {k0} |-> v] : k0 \in RawKeys, v \in Values}

\* the dictionaries config_override(**cfg) pushes
OverrideChoices ==
  {[key \in {s_K} |-> v] : v \in {"", "1", "2"}} \cup {[key \in {s_k} |-> "2"]}

\* manager(key), manager(key, parser=..., raise_error=...)
PlainCalls ==
  {CallArgs(key, PyNone, NO_VALUE, TRUE, PyNone, "", parser, raise_error, FALSE) :
     key \in Keys, parser \in {"str", "int"}, raise_error \in BOOLEAN}

\* manager(key, alternate_keys=[...])
AltCalls ==
  {CallArgs(key, PyNone, NO_VALUE, TRUE, alts, "", "str", TRUE, FALSE) :
     key \in Keys \cup {s_root_b}, alts \in AltLists \ {PyNone}}

\* manager(key, namespace=...)
NsCalls ==
  {CallArgs(key, namespace, NO_VALUE, TRUE, PyNone, "", "int", raise_error, FALSE) :
     key \in Keys, namespace \in NsArgs \ {PyNone}, raise_error \in {TRUE}}

\* manager(key, alternate_keys=["root:k"]) and the like
RootCalls ==
  {a \in AltCalls : a.key \in {s_b, s_root_b}
                     /\ a.alternate_keys \in {PyList(<<s_root_k>>),
                                               PyList(<<s_b, s_root_k>>)}}

AllCalls == PlainCalls \cup AltCalls \cup NsCalls

NoArgs == CallArgs(s_empty, PyNone, NO_VALUE, TRUE, PyNone, "", "str", TRUE, FALSE)
NoOutcome == Outcome("none", NO_VALUE, << >>, s_empty, PyNone, "str", PyNone, "")

Last(op, self, a, namespace, component, cfg, out) ==
  [op |-> op, self |-> self, a |-> a, namespace |-> namespace,
   component |-> component, cfg |-> cfg, out |-> out]

\* the manager an application builds: ConfigManager([ConfigDictEnv(..),
\* ConfigDictEnv(..)]), the override source inserted first
RootManager == ConfigManager(<<1, 2>>, "", TRUE)

\* segments a manager has accumulated, in its namespace and its key prefix
Depth(m) == Len(m.namespace) + Len(m.bound_component_prefix)

\* ---------------------------------------------------------------- actions
\* value = manager(key, ...)
DoCall(a) ==
  /\ last' = Last("call", mgr, a, PyNone, "None", << >>,
                  Call(mgr, a, CONFIG_OVERRIDE, cfgs))
  /\ UNCHANGED <<cfgs, CONFIG_OVERRIDE, mgr, bound_last, blocks, origin, caller_list,
               mgr_holds_caller_list>>

\* manager = manager.with_namespace(namespace)
DoWithNamespace(namespace) ==
  /\ Depth(mgr) + Len(listify(namespace)) <= MaxNs
  /\ mgr' = with_namespace(mgr, namespace)
  /\ origin' = AfterWithNamespace(origin, mgr, namespace)
  /\ last' = Last("with_namespace", mgr, NoArgs, namespace, "None", << >>, NoOutcome)
  /\ mgr_holds_caller_list' = (mgr_holds_caller_list /\ Len(listify(namespace)) = 0)
  /\ UNCHANGED <<cfgs, CONFIG_OVERRIDE, bound_last, blocks, caller_list>>

\* manager = manager.with_options(component)
DoWithOptions(component) ==
  /\ mgr' = with_options(mgr, component)
  /\ origin' = AfterWithOptions(origin, mgr, component)
  /\ last' = Last("with_options", mgr, NoArgs, PyNone, component, << >>, NoOutcome)
  /\ bound_last' = IF Len(get_config_for_class(component)) = 0
                   THEN bound_last ELSE component
  /\ mgr_holds_caller_list' = (mgr_holds_caller_list
                                 /\ Len(get_config_for_class(component)) = 0)
  /\ UNCHANGED <<cfgs, CONFIG_OVERRIDE, blocks, caller_list>>

\* ConfigOverride(**cfg).push_config()
push_config(cfg) ==
  /\ Len(CONFIG_OVERRIDE) < MaxStack
  /\ CONFIG_OVERRIDE' = Append(CONFIG_OVERRIDE, cfg)
  /\ last' = Last("push_config", mgr, NoArgs, PyNone, "None", cfg, NoOutcome)
  /\ UNCHANGED <<cfgs, mgr, bound_last, blocks, origin, caller_list,
               mgr_holds_caller_list>>

\* ConfigOverride.pop_config(): list.pop() raises IndexError on an empty list
pop_config_forgiving ==
  /\ CONFIG_OVERRIDE' = SubSeq(CONFIG_OVERRIDE, 1, Len(CONFIG_OVERRIDE) - 1)
  /\ last' = Last("pop_config", mgr, NoArgs, PyNone, "None",
                  IF Len(CONFIG_OVERRIDE) = 0 THEN << >>
                  ELSE CONFIG_OVERRIDE[Len(CONFIG_OVERRIDE)],
                  [NoOutcome EXCEPT !.kind = "return"])
  /\ UNCHANGED <<cfgs, mgr, bound_last, blocks, origin, caller_list,
                 mgr_holds_caller_list>>

pop_config ==
  /\ IF Len(CONFIG_OVERRIDE) = 0
     THEN /\ CONFIG_OVERRIDE' = CONFIG_OVERRIDE
          /\ last' = Last("pop_config", mgr, NoArgs, PyNone, "None", << >>,
                          [NoOutcome EXCEPT !.kind = "IndexError"])
     ELSE /\ CONFIG_OVERRIDE' = SubSeq(CONFIG_OVERRIDE, 1, Len(CONFIG_OVERRIDE) - 1)
          /\ last' = Last("pop_config", mgr, NoArgs, PyNone, "None",
                          CONFIG_OVERRIDE[Len(CONFIG_OVERRIDE)],
                          [NoOutcome EXCEPT !.kind = "return"])
  /\ UNCHANGED <<cfgs, mgr, bound_last, blocks, origin, caller_list,
               mgr_holds_caller_list>>

\* ------------------------------------------------------- specifications
\* Spec: managers derived by with_namespace and with_options, looked up
\* over two fixed sources
FixedSources ==
  << ConfigDictEnv([key \in {s_k} |-> "1"]),
     ConfigDictEnv([key \in {s_a_k, s_b} |-> IF key = s_b THEN "x" ELSE "2"]) >>

Init ==
  /\ cfgs = FixedSources
  /\ CONFIG_OVERRIDE = << >>
  /\ mgr = RootManager
  /\ last = Last("init", RootManager, NoArgs, PyNone, "None", << >>, NoOutcome)
  /\ bound_last = "None"
  /\ blocks = << >>
  /\ origin = RootManager
  /\ caller_list = RootManager.envs
  /\ mgr_holds_caller_list = TRUE

Next ==
  \/ \E a \in PlainCalls \cup NsCalls \cup RootCalls : DoCall(a)
  \/ \E namespace \in NsArgs : DoWithNamespace(namespace)
  \/ \E component \in ClassNames : DoWithOptions(component)

Spec == Init /\ [][Next]_vars

\* SpecSources: lookups of an unbound manager over every pair of sources
InitSources ==
  /\ cfgs \in {<<ConfigDictEnv(d1), ConfigDictEnv(d2)>> :
                 d1 \in DictChoices, d2 \in DictChoices}
  /\ CONFIG_OVERRIDE = << >>
  /\ mgr = RootManager
  /\ last = Last("init", RootManager, NoArgs, PyNone, "None", << >>, NoOutcome)
  /\ bound_last = "None"
  /\ blocks = << >>
  /\ origin = RootManager
  /\ caller_list = RootManager.envs
  /\ mgr_holds_caller_list = TRUE

NextSources ==
  \/ \E a \in PlainCalls \cup AltCalls : DoCall(a)
  \/ \E namespace \in {PyStr(s_a)} : DoWithNamespace(namespace)

SpecSources == InitSources /\ [][NextSources]_vars

\* SpecOverride: lookups while dictionaries are pushed on and popped off the
\* override stack
InitOverride ==
  /\ cfgs \in {<<ConfigDictEnv(d1), ConfigDictEnv(d2)>> :
                 d1 \in {<< >>, [key \in {s_k} |-> "1"]},
                 d2 \in {<< >>, [key \in {s_K} |-> "x"]}}
  /\ CONFIG_OVERRIDE = << >>
  /\ mgr = RootManager
  /\ last = Last("init", RootManager, NoArgs, PyNone, "None", << >>, NoOutcome)
  /\ bound_last = "None"
  /\ blocks = << >>
  /\ origin = RootManager
  /\ caller_list = RootManager.envs
  /\ mgr_holds_caller_list = TRUE

NextOverride ==
  \/ \E a \in PlainCalls : DoCall(a)
  \/ \E cfg \in OverrideChoices : push_config(cfg)
  \/ pop_config
  \/ \E component \in {"Foo", "Bar"} : DoWithOptions(component)

SpecOverride == InitOverride /\ [][NextOverride]_vars

\* ------------------------------------------------- vocabulary of the claims
\* the canonical key a candidate stands for when looked up in namespace ns
CanonicalOf(candidate, ns) ==
  IF StartsWithRoot(candidate) THEN Upper(StripRoot(candidate))
  ELSE Upper(Join(DropEmpty(ns) \o <<candidate>>))

\* the values source env holds for a canonical key (a set of at most one
\* value): for the override source the value of the dictionary pushed last
\* among those that contain the key
HeldBy(env, full_key) ==
  IF env = OverrideEnv
  THEN {CONFIG_OVERRIDE[i][full_key] :
          i \in {i0 \in 1..Len(CONFIG_OVERRIDE) :
                   /\ full_key \in DOMAIN CONFIG_OVERRIDE[i0]
                   /\ \A i1 \in (i0 + 1)..Len(CONFIG_OVERRIDE) :
                        full_key \notin DOMAIN CONFIG_OVERRIDE[i1]}}
  ELSE IF full_key \in DOMAIN cfgs[env] THEN {cfgs[env][full_key]} ELSE {}

TheOne(set) == CHOOSE x \in set : TRUE

\* the lookup ended the way parsing the string v with parser ends: it
\* returned the parsed value, or raised InvalidValueError when the parser
\* rejects v
EndsAsParseOf(out, parser, v) ==
  LET p == Parse(get_parser(parser), v)
  IN IF p.raised = "" THEN out.kind = "return" /\ out.val = p.v
     ELSE out.kind = "InvalidValueError"

\* the namespace an unbound manager looks a call up in
LookupNamespace(self, a) == self.namespace \o listify(a.namespace)

\* the lookup performed last was made on an unbound manager
UnboundCall == last.op = "call" /\ last.self.bound_component = "None"

\* positions of the sources of the last receiver that hold the canonical
\* key of candidate c; with nonempty, only those that hold a non-empty string
Holders(c, nonempty) ==
  LET self == last.self
      full_key == CanonicalOf(c, LookupNamespace(self, last.a))
  IN {j \in 1..Len(self.envs) :
        /\ HeldBy(self.envs[j], full_key) # {}
        /\ nonempty => TheOne(HeldBy(self.envs[j], full_key)) # ""}

HeldAt(c, j) ==
  TheOne(HeldBy(last.self.envs[j], CanonicalOf(c, LookupNamespace(last.self, last.a))))

Min(set) == CHOOSE x \in set : \A y \in set : x <= y

\* ------------------------------------------------------------------ C1
FirstHolderWins(nonempty) ==
  (UnboundCall /\ ~ Truthy(last.a.alternate_keys)
     /\ Holders(last.a.key, nonempty) # {})
  => EndsAsParseOf(last.out, last.a.parser,
                   HeldAt(last.a.key, Min(Holders(last.a.key, nonempty))))

\* C1 as stated: manager(K) without alternate keys ends as the parse of the
\* value of the first source, in source-list order, that has K in the lookup
\* namespace, whatever the later sources hold.
C1_FirstSourceHavingKeyWins == FirstHolderWins(FALSE)

\* C1 (amended): manager(K) without alternate keys ends as the parse of the
\* value of the first source, in source-list order, that holds a non-empty
\* string for K in the lookup namespace; a source that holds the empty
\* string for K is passed over like a source that lacks K.
C1_FirstSourceWithNonEmptyValueWins == FirstHolderWins(TRUE)

\* the source checked first among the two dictionaries lacks K, the later one
\* has it, and the later one's value was returned
C1_Witness_LaterSource ==
  /\ UnboundCall /\ ~ Truthy(last.a.alternate_keys)
  /\ Holders(last.a.key, TRUE) = {3}
  /\ last.out.kind = "return" /\ last.out.val = PyStr("1")

\* ------------------------------------------------------------------ C3
\* the candidates of the last lookup of an unbound manager, in the order the
\* claim gives: key, a1, ..., an
Candidates(a) ==
  IF a.alternate_keys.ty = "list" THEN <<a.key>> \o a.alternate_keys.l
  ELSE <<a.key>>

\* the (candidate, source) pairs that hold a value, as positions
Hits(nonempty) ==
  {h \in (1..Len(Candidates(last.a))) \X (1..Len(last.self.envs)) :
     h[2] \in Holders(Candidates(last.a)[h[1]], nonempty)}

\* the hit that comes first when every source is tried for a candidate
\* before the next candidate is tried
FirstHit(nonempty) ==
  CHOOSE h \in Hits(nonempty) :
    \A g \in Hits(nonempty) : h[1] < g[1] \/ (h[1] = g[1] /\ h[2] <= g[2])

\* trace position p asked source ((p-1) mod n)+1 for candidate ((p-1) div n)+1
TraceCandidateMajor(out) ==
  LET n == Len(last.self.envs)
  IN \A p \in 1..Len(out.gets) :
       /\ out.gets[p].env = last.self.envs[((p - 1) % n) + 1]
       /\ out.gets[p].full_key =
            CanonicalOf(Candidates(last.a)[((p - 1) \div n) + 1],
                        LookupNamespace(last.self, last.a))

CandidateOrder(nonempty) ==
  UnboundCall =>
    LET n == Len(last.self.envs)
        out == last.out
    IN /\ TraceCandidateMajor(out)
       /\ IF Hits(nonempty) # {}
          THEN /\ Len(out.gets) = (FirstHit(nonempty)[1] - 1) * n + FirstHit(nonempty)[2]
               /\ EndsAsParseOf(out, last.a.parser,
                                HeldAt(Candidates(last.a)[FirstHit(nonempty)[1]],
                                       FirstHit(nonempty)[2]))
          ELSE /\ Len(out.gets) = Len(Candidates(last.a)) * n
               /\ last.a.default = NO_VALUE =>
                    IF last.a.raise_error
                    THEN out.kind = "ConfigurationMissingError"
                    ELSE out.kind = "return" /\ out.val = NO_VALUE

\* C3 as stated: the candidates key, a1, ..., an are tried in this order and
\* each is looked up in every source before the next is tried; the value
\* returned is that of the first candidate some source has a value for (from
\* the first such source), so a primary-key value in the last source wins
\* over an alternate-key value in the first source.
C3_PrimaryExhaustedBeforeAlternates == CandidateOrder(FALSE)

\* C3 (amended): as C3, where a source has a value for a candidate only if
\* it holds a non-empty string for it: an empty string is passed over, and
\* the lookup goes on to the later sources and the later candidates.
C3_NonEmptyPrimaryExhaustedBeforeAlternates == CandidateOrder(TRUE)

\* the primary key is held by the last source only, an alternate key by the
\* first dictionary, and the primary key's value was returned
C3_Witness_PrimaryInLastSource ==
  /\ UnboundCall /\ Len(Candidates(last.a)) = 3
  /\ Holders(Candidates(last.a)[1], TRUE) = {3}
  /\ Holders(Candidates(last.a)[2], TRUE) = {2}
  /\ last.out.kind = "return"
  /\ last.out.val = PyStr(HeldAt(Candidates(last.a)[1], 3))
  /\ HeldAt(Candidates(last.a)[1], 3) # HeldAt(Candidates(last.a)[2], 2)

\* ------------------------------------------------------------------ C4
\* the candidates of the last lookup as the code forms them: on a bound
\* manager the key is joined behind the key prefix and the call's namespace,
\* and the alternate keys are those of the option
CandidatesOfCall(self, a) ==
  IF self.bound_component = "None" THEN Candidates(a)
  ELSE LET key == Join(self.bound_component_prefix \o listify(a.namespace)
                       \o <<a.key>>)
           alts == OptionOf(self.bound_component_options, key).alternate_keys
       IN IF alts.ty = "list" THEN <<key>> \o alts.l ELSE <<key>>

\* the namespace of the last lookup
NamespaceOfCall(self, a) ==
  IF self.bound_component = "None" THEN LookupNamespace(self, a)
  ELSE self.namespace

\* C4: on a manager with a non-empty accumulated namespace, bound or
\* unbound, every source asked for a candidate root:X is asked for the
\* canonical key upper(X) with no namespace, and every source asked for a
\* candidate without the prefix is asked under the manager's namespace.
C4_RootKeysIgnoreNamespace ==
  (last.op = "call" /\ Len(last.self.namespace) > 0 /\ Len(last.out.gets) > 0)
  => LET self == last.self
         n == Len(self.envs)
         cands == CandidatesOfCall(self, last.a)
         ns == NamespaceOfCall(self, last.a)
     IN \A p \in 1..Len(last.out.gets) :
          LET c == cands[((p - 1) \div n) + 1]
              g == last.out.gets[p]
          IN IF StartsWithRoot(c)
             THEN /\ g.namespace = PyNone
                  /\ g.key = StripRoot(c)
                  /\ g.full_key = Upper(StripRoot(c))
             ELSE /\ g.namespace = PyList(ns)
                  /\ g.key = c
                  /\ g.full_key = Upper(Join(DropEmpty(ns) \o <<c>>))

\* a bound manager in namespace a took the value of root:k from the key K
C4_Witness_RootFromNamespace ==
  /\ last.op = "call" /\ last.self.bound_component = "Bar"
  /\ last.self.namespace = <<s_a>> /\ last.a.key = s_b
  /\ last.out.kind = "return" /\ last.out.val = PyStr("1")
  /\ last.out.gets[Len(last.out.gets)].full_key = s_K
  /\ last.out.gets[Len(last.out.gets)].namespace = PyNone
  /\ last.out.gets[1].full_key = <<"A", "_", "B">>

\* ------------------------------------------------------------------ C2
\* the last lookup was manager(K) on a manager that has the override source
\* and accepts K (an unbound manager, or one bound to a component that
\* declares K)
OverridableCall ==
  /\ last.op = "call" /\ last.a.namespace = PyNone
  /\ \E j \in 1..Len(last.self.envs) : last.self.envs[j] = OverrideEnv
  /\ last.self.bound_component # "None" =>
       /\ last.self.bound_component_prefix = << >>
       /\ HasOption(last.self.bound_component_options, last.a.key)

\* the string the override stack holds for K: the value of the dictionary
\* pushed last among those whose keys include the canonical key of K
Overridden == HeldBy(OverrideEnv, CanonicalOf(last.a.key, last.self.namespace))

ParserOfCall ==
  IF last.self.bound_component = "None" THEN last.a.parser
  ELSE OptionOf(last.self.bound_component_options, last.a.key).parser

OverrideWins(nonempty) ==
  (OverridableCall /\ Overridden # {} /\ (nonempty => TheOne(Overridden) # ""))
  => /\ EndsAsParseOf(last.out, ParserOfCall, TheOne(Overridden))
     /\ Len(last.out.gets) = 1
     /\ last.out.gets[1].env = OverrideEnv

FullKeys(out) ==
  [p \in 1..Len(out.gets) |-> <<out.gets[p].env, out.gets[p].full_key>>]

\* two lookups asked for the same canonical keys and ended alike: the same
\* value returned, or the same kind of error raised
SameOutcome(o1, o2) ==
  /\ o1.kind = o2.kind
  /\ o1.val = o2.val
  /\ FullKeys(o1) = FullKeys(o2)

\* manager(key, ...) now
CallNow(self, a) == Call(self, a, CONFIG_OVERRIDE, cfgs)

\* no segment of the manager's namespace and key prefix is the empty string
NoEmptySegment(m) ==
  DropEmpty(m.namespace \o m.bound_component_prefix)
    = m.namespace \o m.bound_component_prefix

\* C5: for every manager m (unbound, bound, or bound with a pending key
\* prefix), every key k and every non-empty namespace n, m(k, namespace=n)
\* and m.with_namespace(n)(k) ask for the same canonical keys and end alike
\* (stated for managers built from non-empty segments).
C5_NamespaceArgumentLikeWithNamespace ==
  (last.op = "call" /\ Truthy(last.a.namespace) /\ NoEmptySegment(last.self))
  => SameOutcome(last.out,
                 CallNow(with_namespace(last.self, last.a.namespace),
                         [last.a EXCEPT !.namespace = PyNone]))

\* ------------------------------------------------------------------ C6
\* every lookup of the model's callers ends alike on x and on y
SameLookups(x, y) ==
  \A a \in PlainCalls \cup NsCalls : SameOutcome(CallNow(x, a), CallNow(y, a))

\* C6: for every manager m, bound managers included,
\* m.with_namespace(a).with_namespace(b) has the namespace of, and behaves
\* for every lookup like, m.with_namespace([a, b]): no segment applied
\* earlier is dropped.
C6_WithNamespaceAccumulates ==
  \A a \in {s_a, s_b} : \A b \in {s_a, s_b} :
    LET x == with_namespace(with_namespace(mgr, PyStr(a)), PyStr(b))
        y == with_namespace(mgr, PyList(<<a, b>>))
    IN /\ get_namespace(x) = get_namespace(y)
       /\ x.bound_component_prefix = y.bound_component_prefix
       /\ SameLookups(x, y)

\* ------------------------------------------------------------------ C7
\* C7: with_namespace called with None, "" or [] returns a manager with the
\* receiver's get_namespace() and the receiver's outcome for every lookup,
\* for unbound and for bound receivers.
C7_FalsyNamespaceIsNoOp ==
  (last.op = "with_namespace" /\ ~ Truthy(last.namespace))
  => /\ get_namespace(mgr) = get_namespace(last.self)
     /\ SameLookups(mgr, last.self)

\* ------------------------------------------------------------------ C8
\* the names of the rolled-up option schema of a component
SchemaNames(component) ==
  {get_config_for_class(component)[i].name :
     i \in 1..Len(get_config_for_class(component))}

SchemaOption(component, name) ==
  LET schema == get_config_for_class(component)
  IN schema[CHOOSE i \in 1..Len(schema) : schema[i].name = name].option

\* the last lookup was manager(key) on a manager as with_options returns it
BoundCall ==
  /\ last.op = "call" /\ last.a.namespace = PyNone
  /\ last.self.bound_component # "None"
  /\ last.self.bound_component_prefix = << >>

\* C8: manager(key) on a manager bound by with_options raises
\* InvalidKeyError (returns None when raise_error is false) for every key
\* that is not a name of the schema of the component bound last, without
\* asking any source, and resolves every key that is a name of that schema,
\* with the parser of that schema's option.
C8_BoundManagerRestrictsKeys ==
  BoundCall =>
    /\ last.self.bound_component = bound_last
    /\ IF last.a.key \notin SchemaNames(bound_last)
       THEN /\ last.out.gets = << >>
            /\ IF last.a.raise_error THEN last.out.kind = "InvalidKeyError"
               ELSE last.out.kind = "return" /\ last.out.val = PyNone
       ELSE /\ last.out.kind \in {"return", "InvalidValueError",
                                  "ConfigurationMissingError"}
            /\ last.out.val # PyNone
            /\ Len(last.out.gets) > 0
            /\ last.out.parser = get_parser(SchemaOption(bound_last, last.a.key).parser)

\* a manager bound to Foo and then to Bar refused a key only Foo declares and
\* had resolved it while bound to Foo
C8_Witness_BoundLast ==
  /\ BoundCall /\ bound_last = "Bar" /\ last.a.key = s_a_k
  /\ s_a_k \in SchemaNames("Foo")
  /\ last.out.kind = "InvalidKeyError" /\ last.out.gets = << >>

\* ------------------------------------------------------------------ C9
\* C9: on a manager bound to a component that declares K, manager(K,
\* namespace=N) and manager.with_namespace(N)(K) resolve K against the
\* schema entry K (its parser, default and alternate keys), look up the
\* string N_K under the manager's accumulated namespace, and never raise
\* InvalidKeyError.
C9_NamespaceKeepsSchemaEntry ==
  (/\ last.op = "call" /\ last.self.bound_component # "None"
   /\ last.a.key \in SchemaNames(last.self.bound_component)
   /\ Len(DropEmpty(last.self.bound_component_prefix \o listify(last.a.namespace))) > 0)
  => LET option == SchemaOption(last.self.bound_component, last.a.key)
         prefixed == Join(last.self.bound_component_prefix
                          \o listify(last.a.namespace) \o <<last.a.key>>)
     IN /\ last.out.kind # "InvalidKeyError"
        /\ last.out.parser = get_parser(option.parser)
        /\ Len(last.out.gets) > 0
        /\ last.out.gets[1].key = prefixed
        /\ last.out.gets[1].namespace = PyList(last.self.namespace)

\* ----------------------------------------------------------------- C10
\* the components that declare options, and the namespaces that add a segment
Binding == {c \in ClassNames : Len(get_config_for_class(c)) > 0}
Adding == {n \in NsArgs : Len(listify(n)) > 0}

\* manager(k) with every other argument left at its default
Plain(k) == CallArgs(k, PyNone, NO_VALUE, TRUE, PyNone, "", "str", TRUE, FALSE)

\* the chain m.with_options(A).with_namespace(s).with_options(B)
Chain(m, A, s, B) == with_options(with_namespace(with_options(m, A), s), B)

\* C10 as stated: for every manager m,
\* m.with_options(A).with_namespace(s).with_options(B) is bound to B with an
\* empty key prefix and its get_namespace() is m's namespace followed by s
\* (stated for managers built from non-empty segments).
C10_NamespaceIsReceiversFollowedBySegment ==
  NoEmptySegment(mgr) =>
  \A A \in ClassNames : \A B \in Binding : \A s \in Adding :
    /\ Chain(mgr, A, s, B).bound_component = B
    /\ Chain(mgr, A, s, B).bound_component_prefix = << >>
    /\ get_namespace(Chain(mgr, A, s, B)) = get_namespace(mgr) \o listify(s)

\* C10 (amended): m.with_options(A).with_namespace(s).with_options(B) is bound to B
\* with an empty key prefix; its get_namespace() is that of
\* m.with_options(A) followed by s, which is m's namespace followed by s for
\* an m without a pending key prefix; and B's option k is resolved against
\* B's schema entry k and looked up as the canonical key of k in that
\* namespace.  The binding step itself moves the receiver's pending key
\* prefix behind the receiver's namespace.
C10_PrefixFlushedIntoNamespace ==
  /\ \A A \in ClassNames : \A B \in Binding : \A s \in Adding :
       LET mA == with_options(mgr, A)
           r == Chain(mgr, A, s, B)
       IN /\ r.bound_component = B
          /\ r.bound_component_prefix = << >>
          /\ get_namespace(r) = get_namespace(mA) \o listify(s)
          /\ mgr.bound_component_prefix = << >> =>
               get_namespace(r) = get_namespace(mgr) \o listify(s)
          /\ \A k \in SchemaNames(B) :
               LET o == CallNow(r, Plain(k))
               IN /\ o.kind # "InvalidKeyError"
                  /\ o.key = k
                  /\ o.parser = get_parser(SchemaOption(B, k).parser)
                  /\ o.gets[1].key = k
                  /\ o.gets[1].namespace = PyList(get_namespace(r))
                  /\ o.gets[1].full_key = CanonicalOf(k, get_namespace(r))
  /\ (last.op = "with_options" /\ last.component \in Binding) =>
       /\ mgr.bound_component = last.component
       /\ mgr.bound_component_prefix = << >>
       /\ get_namespace(mgr) =
            get_namespace(last.self) \o last.self.bound_component_prefix

\* root.with_namespace(a).with_options(Foo).with_namespace(b).with_options(Bar)
\* has been built: it is bound to Bar in the namespace [a, b]
C10_Witness_Chain ==
  /\ last.op = "with_options" /\ last.component = "Bar"
  /\ last.self.bound_component = "Foo"
  /\ last.self.namespace = <<s_a>>
  /\ last.self.bound_component_prefix = <<s_b>>
  /\ mgr.bound_component = "Bar"
  /\ get_namespace(mgr) = <<s_a, s_b>>
  /\ mgr.bound_component_prefix = << >>

\* --------------------------------------------- defaults and parser errors
\* manager("k", default=..., default_if_empty=..., alternate_keys=...,
\* parser=int, raise_error=...): the default is absent, a string the parser
\* accepts, a string it rejects, or True
DefaultCalls ==
  {CallArgs(s_k, PyNone, default, default_if_empty, alts, "", "int", raise_error, FALSE) :
     default \in {NO_VALUE, PyStr("1"), PyStr("x"), PyBool(TRUE)},
     default_if_empty \in BOOLEAN,
     alts \in {PyNone, PyList(<<s_b>>)},
     raise_error \in BOOLEAN}

\* manager("k", parser=p) and manager("k", default="1", parser=p) for
\* parsers that raise
RaisingCalls ==
  {CallArgs(s_k, PyNone, default, TRUE, PyNone, "", parser, TRUE, FALSE) :
     default \in {NO_VALUE, PyStr("1")},
     parser \in RaisingParsers \cup {"bool"}}

\* SpecErrors: lookups with defaults and failing parsers on the root manager
\* and on managers bound to Foo and Bar, over sources that lack the key or
\* hold an empty, a numeric or a non-numeric string for it, with and
\* without an override
InitErrors ==
  /\ cfgs \in {<<ConfigDictEnv(d1), ConfigDictEnv(d2)>> :
                 d1 \in {<< >>, [key \in {s_k} |-> ""], [key \in {s_k} |-> "x"]},
                 d2 \in {<< >>, [key \in {s_b} |-> "1"]}}
  /\ CONFIG_OVERRIDE = << >>
  /\ mgr = RootManager
  /\ last = Last("init", RootManager, NoArgs, PyNone, "None", << >>, NoOutcome)
  /\ bound_last = "None"
  /\ blocks = << >>
  /\ origin = RootManager
  /\ caller_list = RootManager.envs
  /\ mgr_holds_caller_list = TRUE

NextErrors ==
  \/ \E a \in DefaultCalls \cup RaisingCalls : DoCall(a)
  \/ \E component \in {"Foo", "Bar"} : DoWithOptions(component)
  \/ \E cfg \in {[key \in {s_K} |-> v] : v \in {"1", ""}} : push_config(cfg)
  \/ pop_config

SpecErrors == InitErrors /\ [][NextErrors]_vars

\* ----------------------------------------------------------------- C11
\* C11: manager(key, default=d) with d neither NO_VALUE nor a string raises
\* ConfigurationError without get being called on any source, on bound and
\* unbound managers, whatever the sources and the override stack hold.
C11_NonStringDefaultRejectedFirst ==
  (last.op = "call" /\ last.a.default # NO_VALUE /\ last.a.default.ty # "str")
  => /\ last.out.kind = "ConfigurationError"
     /\ last.out.gets = << >>

\* a bound manager was asked for a declared key with default=True while the
\* override stack and a source both held the key
C11_Witness_BoundWithOverride ==
  /\ last.op = "call" /\ last.a.default = PyBool(TRUE)
  /\ last.self.bound_component = "Foo"
  /\ Len(CONFIG_OVERRIDE) > 0
  /\ HeldBy(1, s_K) # {}
  /\ last.out.kind = "ConfigurationError" /\ last.out.gets = << >>

\* ----------------------------------------------------------------- C12
\* the key the last lookup resolves: on a bound manager the key joined
\* behind the key prefix and the call's namespace
KeyOfCall ==
  IF last.self.bound_component = "None" THEN last.a.key
  ELSE Join(last.self.bound_component_prefix \o listify(last.a.namespace)
            \o <<last.a.key>>)

\* the last operation was a lookup that got past the default check and, on
\* a bound manager, asked for a declared option
ResolvedCall ==
  /\ last.op = "call"
  /\ default_is_acceptable(last.a.default)
  /\ last.self.bound_component # "None" =>
       HasOption(last.self.bound_component_options, KeyOfCall)

\* the default and the parser the last lookup works with: the option's on a
\* bound manager, the caller's otherwise; str when raw_value is set
DefaultOfCall ==
  IF last.self.bound_component = "None" THEN last.a.default
  ELSE OptionOf(last.self.bound_component_options, KeyOfCall).default

ParserApplied ==
  IF last.a.raw_value THEN "str"
  ELSE get_parser(IF last.self.bound_component = "None" THEN last.a.parser
                  ELSE OptionOf(last.self.bound_component_options, KeyOfCall).parser)

\* what source j holds for candidate i of the last lookup
HeldForCandidate(i, j) ==
  HeldBy(last.self.envs[j],
         CanonicalOf(CandidatesOfCall(last.self, last.a)[i],
                     NamespaceOfCall(last.self, last.a)))

\* the (candidate, source) positions at which a source has a value for a
\* candidate: any string it holds when everything is set, otherwise any
\* string but the empty one while default_if_empty is true
ValueHits(everything) ==
  {h \in (1..Len(CandidatesOfCall(last.self, last.a))) \X (1..Len(last.self.envs)) :
     /\ HeldForCandidate(h[1], h[2]) # {}
     /\ \/ everything
        \/ ~ last.a.default_if_empty
        \/ TheOne(HeldForCandidate(h[1], h[2])) # ""}

FirstValueHit(everything) ==
  CHOOSE h \in ValueHits(everything) :
    \A g \in ValueHits(everything) : h[1] < g[1] \/ (h[1] = g[1] /\ h[2] <= g[2])

\* the lookup ended the way applying parser to the string v ends: with the
\* parsed value, or with an exception when the parser raises
EndsAsParserDoes(out, parser, v) ==
  LET p == Parse(parser, v)
  IN IF p.raised = "" THEN out.kind = "return" /\ out.val = p.v
     ELSE out.kind \in {"InvalidValueError", p.raised}

DefaultRule(everything) ==
  ResolvedCall =>
    IF ValueHits(everything) # {}
    THEN /\ EndsAsParserDoes(last.out, ParserApplied,
                             TheOne(HeldForCandidate(FirstValueHit(everything)[1],
                                                     FirstValueHit(everything)[2])))
         /\ last.out.msg # "default value"
    ELSE IF DefaultOfCall # NO_VALUE
    THEN EndsAsParserDoes(last.out, ParserApplied, DefaultOfCall.s)
    ELSE IF last.a.raise_error
    THEN last.out.kind = "ConfigurationMissingError"
    ELSE last.out.kind = "return" /\ last.out.val = NO_VALUE

\* C12 as stated: when no source has a value for the key or an alternate
\* key the lookup ends as parser(default) if there is a default, else with
\* ConfigurationMissingError (raise_error) or NO_VALUE; the default is never
\* used when some source has a value for a candidate key.
C12_DefaultOnlyWhenNoSourceHasValue ==
  (ResolvedCall /\ DefaultOfCall # NO_VALUE) => DefaultRule(TRUE)

\* C12 (amended): as C12, where a source has a value for a candidate when it
\* holds a string for it that is not empty, or any string when
\* default_if_empty is false: with default_if_empty true a source holding
\* the empty string does not keep the default from being used.
C12_DefaultWhenNoSourceHasCountingValue == DefaultRule(FALSE)

\* the only source that has the key holds the empty string for it, and the
\* lookup returned the parsed default
C12_Witness_DefaultOverEmptyString ==
  /\ ResolvedCall /\ last.self.bound_component = "None"
  /\ ValueHits(FALSE) = {} /\ ValueHits(TRUE) # {}
  /\ last.a.default = PyStr("1")
  /\ last.out.kind = "return" /\ last.out.val = PyInt(1)

\* ----------------------------------------------------------------- C13
\* the last lookup handed a string to the parser: the first usable source
\* value, or the default when there is none
ParserRan ==
  /\ ResolvedCall
  /\ ValueHits(FALSE) # {} \/ DefaultOfCall # NO_VALUE

ParsedString ==
  IF ValueHits(FALSE) # {}
  THEN TheOne(HeldForCandidate(FirstValueHit(FALSE)[1], FirstValueHit(FALSE)[2]))
  ELSE DefaultOfCall.s

\* the exception the parser raised on it ("" when it returned)
RaisedByParser == Parse(ParserApplied, ParsedString).raised

\* C13 as stated: every exception the parser raises on a source value or on
\* the default leaves the lookup as an InvalidValueError, except that a
\* ConfigurationError or a subclass of it propagates unchanged; no other
\* exception type escapes.
C13_ParserExceptionsWrapped ==
  (ParserRan /\ RaisedByParser # "")
  => IF IsInstance(RaisedByParser, "ConfigurationError")
     THEN last.out.kind = RaisedByParser
     ELSE last.out.kind = "InvalidValueError"

\* C13 (amended): an exception the parser raises leaves the lookup as an
\* InvalidValueError when it derives from Exception and not from
\* ConfigurationError; a ConfigurationError or a subclass of it propagates
\* unchanged, and so does an exception that derives from BaseException only
\* (KeyboardInterrupt, SystemExit), which "except Exception" does not catch.
C13_ExceptionSubclassesWrapped ==
  (ParserRan /\ RaisedByParser # "")
  => IF IsInstance(RaisedByParser, "ConfigurationError")
     THEN last.out.kind = RaisedByParser
     ELSE IF IsInstance(RaisedByParser, "Exception")
     THEN last.out.kind = "InvalidValueError"
     ELSE last.out.kind = RaisedByParser

\* a parser raised KeyError on a value a source held and the lookup raised
\* InvalidValueError
C13_Witness_KeyErrorWrapped ==
  /\ ParserRan /\ ValueHits(FALSE) # {}
  /\ RaisedByParser = "KeyError"
  /\ last.out.kind = "InvalidValueError"

\* ----------------------------------------------------------------- C14
\* C14: a ConfigurationMissingError or InvalidValueError raised by
\* manager(key, namespace=N, parser=P) on an unbound manager without an
\* accumulated namespace carries the key, the namespace N and the parser P
\* as the caller passed them.
C14_ErrorCarriesCallersArguments ==
  (/\ last.op = "call" /\ Truthy(last.a.namespace)
   /\ last.self.bound_component = "None" /\ last.self.namespace = << >>
   /\ last.out.kind \in {"ConfigurationMissingError", "InvalidValueError"})
  => /\ last.out.key = last.a.key
     /\ last.out.namespace = last.a.namespace
     /\ last.out.parser = last.a.parser

\* ------------------------------------------------------ class hierarchies
\* options = get_config_for_class(cls)
DoGetConfigForClass(cls) ==
  /\ last' = Last("get_config_for_class", mgr, NoArgs, PyNone, cls, << >>,
                  [NoOutcome EXCEPT !.kind = "return",
                                    !.val = PyList(get_config_for_class(cls))])
  /\ UNCHANGED <<cfgs, CONFIG_OVERRIDE, mgr, bound_last, blocks, origin, caller_list,
               mgr_holds_caller_list>>

\* required = cls.get_required_config()
DoGetRequiredConfig(cls) ==
  /\ last' = Last("get_required_config", mgr, NoArgs, PyNone, cls, << >>,
                  [NoOutcome EXCEPT !.kind = "return",
                                    !.val = PyList(get_required_config(cls))])
  /\ UNCHANGED <<cfgs, CONFIG_OVERRIDE, mgr, bound_last, blocks, origin, caller_list,
               mgr_holds_caller_list>>

\* the classes of test_get_required_config_complex_mro: TC(TB, TA), TA and
\* TB deriving from ComponentBase, which declares nothing
MixinClasses == HierarchyClasses \cup {"TA", "TB", "TC", "ComponentBase"}

\* manager(key) for the option names of the hierarchy
HierarchyCalls ==
  {CallArgs(key, PyNone, NO_VALUE, TRUE, PyNone, "", "str", raise_error, FALSE) :
     key \in {s_w, s_x, s_y, s_z}, raise_error \in BOOLEAN}

\* SpecClasses: the schema of every class of the hierarchy is rolled up, and
\* managers are bound to the classes and asked for their options
InitClasses ==
  /\ cfgs \in {<<ConfigDictEnv(d1), ConfigDictEnv(<< >>)>> :
                 d1 \in {<< >>, [key \in {s_y} |-> "1"]}}
  /\ CONFIG_OVERRIDE = << >>
  /\ mgr = RootManager
  /\ last = Last("init", RootManager, NoArgs, PyNone, "None", << >>, NoOutcome)
  /\ bound_last = "None"
  /\ blocks = << >>
  /\ origin = RootManager
  /\ caller_list = RootManager.envs
  /\ mgr_holds_caller_list = TRUE

NextClasses ==
  \/ \E cls \in HierarchyClasses \cup ClassNames : DoGetConfigForClass(cls)
  \/ \E component \in HierarchyClasses : DoWithOptions(component)
  \/ \E a \in HierarchyCalls : DoCall(a)
  \/ \E cls \in MixinClasses : DoGetRequiredConfig(cls)

SpecClasses == InitClasses /\ [][NextClasses]_vars

\* ----------------------------------------------------------------- C15
\* the option names the Config of cls itself declares
OwnNames(cls) ==
  {OwnConfig(cls).opts[i].name : i \in 1..Len(OwnConfig(cls).opts)}

OwnOption(cls, name) ==
  OwnConfig(cls).opts[CHOOSE i \in 1..Len(OwnConfig(cls).opts) :
                        OwnConfig(cls).opts[i].name = name].option

\* the names declared by the Config of some class of the MRO of cls
DeclaredNames(cls) ==
  UNION {OwnNames(ClassMRO(cls)[i]) : i \in 1..Len(ClassMRO(cls))}

\* the most-derived class (first in MRO order) whose own Config declares name
FirstDeclarer(cls, name) ==
  ClassMRO(cls)[Min({i \in 1..Len(ClassMRO(cls)) : name \in OwnNames(ClassMRO(cls)[i])})]

\* the schema rolled up last
RolledUp == last.out.val.l

\* C15, the part about the Option: get_config_for_class(cls) holds exactly
\* the names declared in the Config of some class of the MRO of cls, each
\* with the Option of the most-derived class (first in MRO order) whose own
\* Config declares it, for every hierarchy (diamonds, classes that inherit
\* a Config without declaring one).
C15_MostDerivedDeclarationWins ==
  last.op = "get_config_for_class" =>
    /\ {RolledUp[i].name : i \in 1..Len(RolledUp)} = DeclaredNames(last.component)
    /\ \A i \in 1..Len(RolledUp) :
         RolledUp[i].option =
           OwnOption(FirstDeclarer(last.component, RolledUp[i].name), RolledUp[i].name)

\* ----------------------------------------------------------------- C16
\* seq followed by the names of names, in their order, that are not in it yet
RECURSIVE AppendNew(_, _)
AppendNew(seq, names) ==
  IF Len(names) = 0 THEN seq
  ELSE AppendNew(IF \E i \in 1..Len(seq) : seq[i] = names[1] THEN seq
                 ELSE Append(seq, names[1]),
                 Tail(names))

\* the names a class declares in its own Config, in declaration order
OwnNameOrder(cls) ==
  [i \in 1..Len(OwnConfig(cls).opts) |-> OwnConfig(cls).opts[i].name]

\* the names in the order they are first met walking the classes of rmro
RECURSIVE FirstSeenOrder(_, _)
FirstSeenOrder(rmro, seen) ==
  IF Len(rmro) = 0 THEN seen
  ELSE FirstSeenOrder(Tail(rmro), AppendNew(seen, OwnNameOrder(rmro[1])))

\* C16: get_config_for_class(cls) lists the option names in the order they
\* are first met walking the MRO from most-base to most-derived; an option
\* a subclass redeclares keeps the position of its first declaration.
C16_OrderOfFirstDeclaration ==
  last.op = "get_config_for_class" =>
    [i \in 1..Len(RolledUp) |-> RolledUp[i].name]
      = FirstSeenOrder(Reversed(ClassMRO(last.component)), << >>)

\* HE redeclares y, declared second by HA, and adds z: y is still second
\* and carries HE's Option
C16_Witness_RedeclaredKeepsPosition ==
  /\ last.op = "get_config_for_class" /\ last.component = "HE"
  /\ [i \in 1..Len(RolledUp) |-> RolledUp[i].name] = <<s_x, s_y, s_z>>
  /\ RolledUp[2].option = DefaultOption("y_E")

\* ------------------------------------------------- config_override blocks
\* the override stack after _CONFIG_OVERRIDE.pop() in __exit__ and in the
\* finally clause of a decorated call, whether or not the body raised
stack_after_exit_kept_on_exception(stack, raised) ==
  IF raised THEN stack ELSE SubSeq(stack, 1, Len(stack) - 1)

stack_after_exit(stack, raised) == SubSeq(stack, 1, Len(stack) - 1)

\* "with config_override(**cfg):" is entered (__enter__), or a function
\* decorated with config_override(**cfg) is called (_decorated up to the
\* call of fun): push_config
EnterBlock(cfg, kind) ==
  /\ Len(CONFIG_OVERRIDE) < MaxStack
  /\ CONFIG_OVERRIDE' = Append(CONFIG_OVERRIDE, cfg)
  /\ blocks' = Append(blocks, [cfg |-> cfg, kind |-> kind, before |-> CONFIG_OVERRIDE])
  /\ last' = Last("enter", mgr, NoArgs, PyNone, "None", cfg, NoOutcome)
  /\ UNCHANGED <<cfgs, mgr, bound_last, origin, caller_list,
               mgr_holds_caller_list>>

\* the innermost running block or decorated call ends, by return or by an
\* exception of its body: __exit__, or the finally clause of _decorated
ExitBlock(raised) ==
  /\ Len(blocks) > 0
  /\ CONFIG_OVERRIDE' = stack_after_exit(CONFIG_OVERRIDE, raised)
  /\ blocks' = SubSeq(blocks, 1, Len(blocks) - 1)
  /\ last' = Last("exit", mgr, NoArgs, PyNone, "None", blocks[Len(blocks)],
                  [NoOutcome EXCEPT !.kind = IF raised THEN "exception" ELSE "return"])
  /\ UNCHANGED <<cfgs, mgr, bound_last, origin, caller_list,
               mgr_holds_caller_list>>

\* SpecBlocks: properly nested with-blocks and decorated calls of one
\* thread, with lookups in their bodies
InitBlocks ==
  /\ cfgs = FixedSources
  /\ CONFIG_OVERRIDE = << >>
  /\ mgr = RootManager
  /\ last = Last("init", RootManager, NoArgs, PyNone, "None", << >>, NoOutcome)
  /\ bound_last = "None"
  /\ blocks = << >>
  /\ origin = RootManager
  /\ caller_list = RootManager.envs
  /\ mgr_holds_caller_list = TRUE

NextBlocks ==
  \/ \E cfg \in {[key \in {s_K} |-> "1"], [key \in {s_K} |-> "2"]} :
       \E kind \in {"with", "decorated"} : EnterBlock(cfg, kind)
  \/ \E raised \in BOOLEAN : ExitBlock(raised)
  \/ \E a \in {c \in PlainCalls : c.key \in {s_k, s_b}} : DoCall(a)

SpecBlocks == InitBlocks /\ [][NextBlocks]_vars

\* ----------------------------------------------------------------- C17
\* C17: in a properly nested sequence of config_override with-blocks and
\* decorated calls of one thread, the dictionary of every running block is
\* on the stack directly above the stack the block was entered with, and
\* when a block ends, by return or by exception, the override stack is
\* exactly the stack that existed when it began.
C17_BlocksRestoreTheStack ==
  /\ \A i \in 1..Len(blocks) :
       /\ Len(CONFIG_OVERRIDE) > Len(blocks[i].before)
       /\ SubSeq(CONFIG_OVERRIDE, 1, Len(blocks[i].before)) = blocks[i].before
       /\ CONFIG_OVERRIDE[Len(blocks[i].before) + 1] = blocks[i].cfg
  /\ last.op = "exit" => CONFIG_OVERRIDE = last.cfg.before

\* an inner block entered inside an outer one ended by an exception, and the
\* outer block's dictionary is on top of the stack again
C17_Witness_InnerBlockRaised ==
  /\ last.op = "exit" /\ last.out.kind = "exception"
  /\ Len(blocks) = 1 /\ last.cfg.cfg # blocks[1].cfg
  /\ CONFIG_OVERRIDE = <<blocks[1].cfg>>

s_config == <<"c", "o", "n", "f", "i", "g">>

ManagerObject(m) == [cls |-> "ConfigManager", attrs |-> << >>, m |-> m]
NoneObject == [cls |-> "NoneType", attrs |-> << >>]
OptionObject == [cls |-> "Option", attrs |-> << >>]

\* def __init__(self, config): self.config = config.with_options(self)
Component(cls, config) ==
  [cls |-> cls,
   attrs |-> << [name |-> s_config,
                 val |-> ManagerObject(with_options(config, cls))] >>]

\* def __init__(self, config): self.config = config.with_options(self);
\* self.<attr> = child, for an attribute named a or b, which dir() lists
\* before config
ComponentWith(cls, config, attr, child) ==
  [cls |-> cls,
   attrs |-> << [name |-> attr, val |-> child],
                [name |-> s_config,
                 val |-> ManagerObject(with_options(config, cls))] >>]

\* bool(val) of an attribute value
ObjTruthy(val) == val.cls # "NoneType"

\* attr.startswith("__")
StartsWithDunder(attr) == Len(attr) >= 2 /\ attr[1] = "_" /\ attr[2] = "_"

\* namespace + [attr]
child_namespace_attr_only(namespace, attr) == <<attr>>

child_namespace(namespace, attr) == namespace \o <<attr>>

\* traverse_tree(instance, namespace): the (namespace, key, option, instance)
\* entries of the instance, then those of its attributes in dir() order;
\* nothing at all for an instance whose class has no options
RECURSIVE traverse_tree(_, _)
RECURSIVE traverse_attrs(_, _, _)
traverse_attrs(instance, namespace, i) ==
  IF i > Len(instance.attrs) THEN << >>
  ELSE LET attr == instance.attrs[i].name
           val == instance.attrs[i].val
       IN (IF StartsWithDunder(attr) \/ ~ ObjTruthy(val) \/ val.cls = "Option"
           THEN << >>
           ELSE traverse_tree(val, child_namespace(namespace, attr)))
          \o traverse_attrs(instance, namespace, i + 1)

traverse_tree(instance, namespace) ==
  LET this_options == get_config_for_class(instance.cls)
  IN IF Len(this_options) = 0 THEN << >>
     ELSE [i \in 1..Len(this_options) |->
             [namespace |-> namespace, key |-> this_options[i].name,
              option |-> this_options[i].option, obj |-> instance]]
          \o traverse_attrs(instance, namespace, 1)

\* config(key, raise_error=False, raw_value=True)
RuntimeArgs(key) ==
  CallArgs(key, PyNone, NO_VALUE, TRUE, PyNone, "", "str", FALSE, TRUE)

\* get_runtime_config(config, component): for every entry of the traversal
\* the value config.with_namespace(namespace).with_options(obj) has for the
\* key, as (namespace, key, value, option)
get_runtime_config(config, component, stack, sources) ==
  LET t == traverse_tree(component, << >>)
      outs == [i \in 1..Len(t) |->
                 Call(with_options(with_namespace(config, PyList(t[i].namespace)),
                                   t[i].obj.cls),
                      RuntimeArgs(t[i].key), stack, sources)]
      raised == {i \in 1..Len(t) : outs[i].kind # "return"}
  IN IF raised # {}
     THEN [NoOutcome EXCEPT !.kind = outs[Min(raised)].kind]
     ELSE [NoOutcome EXCEPT
             !.kind = "return",
             !.val = [i \in 1..Len(t) |->
                        [namespace |-> t[i].namespace, key |-> t[i].key,
                         value |-> outs[i].val, option |-> t[i].option]]]

\* the trees an application builds from the manager config: a component
\* constructed with config, holding nothing else, None, an Option, or under
\* the attribute a or b a component constructed with config narrowed by
\* "b", which may hold under the attribute a a Bar constructed with that
\* manager narrowed by "a"
Leaves(config) == {Component(cls, config) : cls \in ClassNames}

Subtrees(config) ==
  {Component(cls, config) : cls \in {"Bar", "Empty"}}
    \cup {ComponentWith(cls, config, s_a,
                        Component("Bar", with_namespace(config, PyStr(s_a)))) :
            cls \in {"Foo", "Empty"}}

Trees(config) ==
  Leaves(config)
    \cup {ComponentWith(cls, config, attr, child) :
            cls \in {"Foo", "Empty"}, attr \in {s_a, s_b},
            child \in {NoneObject, OptionObject}
                        \cup Subtrees(with_namespace(config, PyStr(s_b)))}

\* runtime_config = get_runtime_config(manager, root)
DoGetRuntimeConfig(root) ==
  /\ last' = Last("get_runtime_config", mgr, NoArgs, PyNone, root, << >>,
                  get_runtime_config(mgr, root, CONFIG_OVERRIDE, cfgs))
  /\ UNCHANGED <<cfgs, CONFIG_OVERRIDE, mgr, bound_last, blocks, origin, caller_list,
               mgr_holds_caller_list>>

\* SpecTree: get_runtime_config on component trees built from the root
\* manager and from managers narrowed by "a", over sources that hold k,
\* a_k or b
InitTree ==
  /\ cfgs \in {<<ConfigDictEnv(d1), ConfigDictEnv(d2)>> :
                 d1 \in {<< >>, [key \in {s_k} |-> "1"]},
                 d2 \in {<< >>, [key \in {s_a_k} |-> "2"], [key \in {s_b} |-> "x"]}}
  /\ CONFIG_OVERRIDE = << >>
  /\ mgr = RootManager
  /\ last = Last("init", RootManager, NoArgs, PyNone, "None", << >>, NoOutcome)
  /\ bound_last = "None"
  /\ blocks = << >>
  /\ origin = RootManager
  /\ caller_list = RootManager.envs
  /\ mgr_holds_caller_list = TRUE

NextTree ==
  \/ \E namespace \in {PyStr(s_a)} : DoWithNamespace(namespace)
  \/ \E root \in Trees(mgr) : DoGetRuntimeConfig(root)

SpecTree == InitTree /\ [][NextTree]_vars

\* ----------------------------------------------------------------- C19
\* the class of the object declares options
HasSchema(obj) == Len(get_config_for_class(obj.cls)) > 0

\* the objects reached from obj through truthy attributes that are not
\* Options, each with the attribute names leading to it; descending from
\* every object (through_any) or only from objects that have a schema
RECURSIVE Reached(_, _, _)
Reached(obj, path, through_any) ==
  {[path |-> path, obj |-> obj]}
    \cup UNION {IF ObjTruthy(obj.attrs[i].val) /\ obj.attrs[i].val.cls # "Option"
                   /\ (through_any \/ HasSchema(obj))
                THEN Reached(obj.attrs[i].val, path \o <<obj.attrs[i].name>>,
                             through_any)
                ELSE {} : i \in 1..Len(obj.attrs)}

\* one (namespace, key, option) for each declared option of every reached
\* object that has a schema
ExpectedEntries(root, through_any) ==
  UNION {{[namespace |-> r.path, key |-> e.name, option |-> e.option] :
            e \in {get_config_for_class(r.obj.cls)[i] :
                     i \in 1..Len(get_config_for_class(r.obj.cls))}} :
         r \in {x \in Reached(root, << >>, through_any) : HasSchema(x.obj)}}

\* the tuples get_runtime_config returned last, without their values
YieldedEntries ==
  {[namespace |-> last.out.val[i].namespace, key |-> last.out.val[i].key,
    option |-> last.out.val[i].option] : i \in 1..Len(last.out.val)}

ExactlyTheEntries(through_any) ==
  (last.op = "get_runtime_config" /\ last.out.kind = "return")
  => /\ YieldedEntries = ExpectedEntries(last.component, through_any)
     /\ Len(last.out.val)
          = Cardinality(ExpectedEntries(last.component, through_any))

\* C19: get_runtime_config(config, root) yields exactly one tuple for each
\* declared option of every object that carries an option schema and is
\* reachable from root through truthy, non-Option attributes, root included
\* and also when an object on the path has no schema of its own, with the
\* namespace path equal to the list of attribute names from root to the
\* object.
C19_EverySchemaObjectReachableIsListed == ExactlyTheEntries(TRUE)

\* C19 as amended: the same for the objects reachable from root through
\* truthy, non-Option attributes of objects that all carry a schema, root
\* included; nothing is yielded for what lies behind an object without one.
C19_SchemaObjectsBelowSchemaObjectsAreListed == ExactlyTheEntries(FALSE)

\* a tree three deep was walked: the innermost component is listed under
\* the two attribute names leading to it, and in another state a component
\* held by an object without a schema is not listed
C19_Witness_TwoLevelsListed ==
  /\ last.op = "get_runtime_config" /\ last.out.kind = "return"
  /\ \E i \in 1..Len(last.out.val) : last.out.val[i].namespace = <<s_b, s_a>>
  /\ HasSchema(last.component)

\* ----------------------------------------------------------------- C20
\* obj.config: the manager the object got from with_options when it was
\* constructed
OwnManager(obj) ==
  obj.attrs[CHOOSE i \in 1..Len(obj.attrs) : obj.attrs[i].name = s_config].val.m

\* C20: for each tuple yielded by get_runtime_config, the value is the raw
\* value that the own bound manager of the object returns for that key with
\* raise_error=False and raw_value=True, whatever namespace the object was
\* constructed with and whatever the name of the attribute that holds it.
C20_ValueIsWhatOwnManagerReturns ==
  (last.op = "get_runtime_config" /\ last.out.kind = "return")
  => LET t == traverse_tree(last.component, << >>)
     IN \A i \in 1..Len(last.out.val) :
          LET own == Call(OwnManager(t[i].obj), RuntimeArgs(last.out.val[i].key),
                          CONFIG_OVERRIDE, cfgs)
          IN own.kind = "return" /\ last.out.val[i].value = own.val

\* ----------------------------------------------------------------- C21
\* the last lookup with raw_value=True in place of raw_value=False
RawTwin == CallNow(last.self, [last.a EXCEPT !.raw_value = TRUE])

\* C21: manager(key, raw_value=True, ...) selects the same source value or
\* default as the same call with raw_value=False and returns it unparsed:
\* whenever the parsed call returns parser(s) or raises InvalidValueError for
\* the string s, the raw call returns s, having asked the same sources for
\* the same keys; a raw call never raises InvalidValueError.  On bound and
\* unbound managers.
C21_RawValueIsTheUnparsedSelection ==
  (ResolvedCall /\ ~ last.a.raw_value)
  => /\ RawTwin.kind # "InvalidValueError"
     /\ RawTwin.gets = last.out.gets
     /\ (ParserRan /\ last.out.kind \in {"return", "InvalidValueError"})
          => /\ EndsAsParserDoes(last.out, ParserApplied, ParsedString)
             /\ RawTwin.kind = "return"
             /\ RawTwin.val = PyStr(ParsedString)

\* a manager bound to Foo raised InvalidValueError for k, which a source
\* holds as "x"; the raw lookup returns "x"
C21_Witness_UnparseableReturnedRaw ==
  /\ ResolvedCall /\ ~ last.a.raw_value
  /\ last.self.bound_component = "Foo"
  /\ last.out.kind = "InvalidValueError" /\ ParsedString = "x"
  /\ RawTwin.kind = "return" /\ RawTwin.val = PyStr("x")

\* ----------------------------------------------------------------- C22
\* the sources and the override stack with every empty-string answer taken
\* out: a ConfigDictEnv without the keys it holds the empty string for, the
\* stack without the keys the override source answers the empty string for
EmptiedOverrideKeys ==
  {k \in UNION {DOMAIN CONFIG_OVERRIDE[i] : i \in 1..Len(CONFIG_OVERRIDE)} :
     HeldBy(OverrideEnv, k) = {""}}

StackWithoutEmptyAnswers ==
  [i \in 1..Len(CONFIG_OVERRIDE) |->
     [k \in DOMAIN CONFIG_OVERRIDE[i] \ EmptiedOverrideKeys |-> CONFIG_OVERRIDE[i][k]]]

SourcesWithoutEmptyAnswers ==
  [j \in DOMAIN cfgs |->
     [k \in {k0 \in DOMAIN cfgs[j] : cfgs[j][k0] # ""} |-> cfgs[j][k]]]

\* the number of env.get calls made up to the one for candidate i in the
\* source at position j
GetsUpTo(i, j) == (i - 1) * Len(last.self.envs) + j

\* C22: with default_if_empty true a source that returns the empty string
\* for a candidate is treated exactly as if it returned NO_VALUE: the lookup
\* goes on with the remaining sources, then the alternate keys, then the
\* default, and ends as it does over sources that lack those keys.  With
\* default_if_empty false the empty string is the found value, is passed to
\* the parser, and ends the lookup.
C22_EmptyStringIsNoValueUnlessAsked ==
  ResolvedCall =>
    IF last.a.default_if_empty
    THEN last.out = Call(last.self, last.a, StackWithoutEmptyAnswers,
                         SourcesWithoutEmptyAnswers)
    ELSE (/\ ValueHits(TRUE) # {}
          /\ TheOne(HeldForCandidate(FirstValueHit(TRUE)[1], FirstValueHit(TRUE)[2])) = "")
         => /\ EndsAsParserDoes(last.out, ParserApplied, "")
            /\ last.out.msg # "default value"
            /\ Len(last.out.gets) = GetsUpTo(FirstValueHit(TRUE)[1], FirstValueHit(TRUE)[2])

\* the override source and the first source answered the empty string for
\* k; the lookup went on to the alternate key b and returned its value
C22_Witness_WentOnToAlternateKey ==
  /\ ResolvedCall /\ last.self.bound_component = "None"
  /\ last.a.default_if_empty /\ last.a.alternate_keys = PyList(<<s_b>>)
  /\ HeldBy(OverrideEnv, s_K) = {""} /\ HeldBy(1, s_K) = {""}
  /\ HeldBy(2, Upper(s_b)) = {"1"}
  /\ last.out.kind = "return" /\ last.out.val = PyInt(1)

\* ----------------------------------------------------------------- C23
\* seq with the names of names moved to its end, one after the other
RECURSIVE MoveToEnd(_, _)
MoveToEnd(seq, names) ==
  IF Len(names) = 0 THEN seq
  ELSE MoveToEnd(Append(SelectSeq(seq, LAMBDA n : n # names[1]), names[1]),
                 Tail(names))

\* the names in the order of their most-derived declaration: walking the
\* classes of rmro, each class puts the names it declares itself last
RECURSIVE LastDeclaredOrder(_, _)
LastDeclaredOrder(rmro, seen) ==
  IF Len(rmro) = 0 THEN seen
  ELSE LastDeclaredOrder(Tail(rmro), MoveToEnd(seen, OwnNameOrder(rmro[1])))

RequiredKeys == [i \in 1..Len(RolledUp) |-> RolledUp[i].name]

\* C23: RequiredConfigMixin.get_required_config() yields each option key
\* once, and an option redeclared by a subclass is the redeclared one and
\* appears at the position of the most-derived redeclaration, after the
\* options contributed only by less-derived classes: for C(B, A) with A
\* declaring a, B declaring b and bd, and C declaring b and c, the order is
\* a, bd, b, c.
C23_MostDerivedRedeclarationPosition ==
  last.op = "get_required_config" =>
    /\ \A i, j \in 1..Len(RolledUp) : RolledUp[i].name = RolledUp[j].name => i = j
    /\ RequiredKeys = LastDeclaredOrder(Reversed(ClassMRO(last.component)), << >>)
    /\ \A i \in 1..Len(RolledUp) :
         RolledUp[i].option =
           OwnOption(FirstDeclarer(last.component, RolledUp[i].name), RolledUp[i].name)
    /\ last.component = "TC" => RequiredKeys = <<s_a, s_bd, s_b, s_c>>

\* --------------------------------------------------------- construction
\* environments = [...]: the program makes a new list of sources
NewList(environments) ==
  /\ caller_list' = environments
  /\ mgr_holds_caller_list' = FALSE
  /\ last' = Last("new_list", mgr, NoArgs, PyNone, "None", environments, NoOutcome)
  /\ UNCHANGED <<cfgs, CONFIG_OVERRIDE, mgr, bound_last, blocks, origin>>

\* manager = ConfigManager(environments, with_override=...): the constructor
\* inserts the override source into the list it is given and keeps that
\* list as self.envs
DoConstruct(with_override) ==
  /\ mgr' = ConfigManager(caller_list, "", with_override)
  /\ caller_list' = mgr'.envs
  /\ mgr_holds_caller_list' = TRUE
  /\ last' = Last("construct", mgr, NoArgs, PyNone, "None", caller_list, NoOutcome)
  /\ UNCHANGED <<cfgs, CONFIG_OVERRIDE, bound_last, blocks, origin>>

\* ConfigManager(environments, with_override=...) for a manager the program
\* keeps elsewhere: the list is changed under the manager that holds it
DoConstructOther(with_override) ==
  /\ caller_list' = ConfigManager(caller_list, "", with_override).envs
  /\ mgr' = IF mgr_holds_caller_list THEN [mgr EXCEPT !.envs = caller_list'] ELSE mgr
  /\ last' = Last("construct_other", mgr, NoArgs, PyNone, "None", caller_list,
                  NoOutcome)
  /\ UNCHANGED <<cfgs, CONFIG_OVERRIDE, bound_last, blocks, origin,
                 mgr_holds_caller_list>>

\* the lists a program hands to ConfigManager: ConfigDictEnv sources, with
\* or without a ConfigOverrideEnv of its own among them
ListChoices == {<<1, 2>>, <<2, 1>>, <<1, OverrideEnv>>}

\* SpecConstruct: managers are constructed from lists the program makes and
\* reuses, with and without the override source, derived from, and looked
\* up while dictionaries are pushed on and popped off the override stack
InitConstruct ==
  /\ cfgs = <<ConfigDictEnv([key \in {s_k} |-> "1"]), ConfigDictEnv([key \in {s_b} |-> "x"])>>
  /\ CONFIG_OVERRIDE = << >>
  /\ mgr = RootManager
  /\ last = Last("init", RootManager, NoArgs, PyNone, "None", << >>, NoOutcome)
  /\ bound_last = "None"
  /\ blocks = << >>
  /\ origin = RootManager
  /\ caller_list = RootManager.envs
  /\ mgr_holds_caller_list = TRUE

NextConstruct ==
  \/ \E environments \in ListChoices : NewList(environments)
  \/ \E with_override \in BOOLEAN : DoConstruct(with_override)
  \/ \E with_override \in BOOLEAN : DoConstructOther(with_override)
  \/ \E namespace \in {PyStr(s_a)} : DoWithNamespace(namespace)
  \/ \E component \in {"Foo"} : DoWithOptions(component)
  \/ \E a \in {c \in PlainCalls : c.key = s_k /\ c.parser = "str"} : DoCall(a)
  \/ \E cfg \in {[key \in {s_K} |-> "2"]} : push_config(cfg)
  \/ pop_config

SpecConstruct == InitConstruct /\ [][NextConstruct]_vars

\* ----------------------------------------------------------------- C24
\* the positions of the override source in a source list
OverridePositions(envs) == {i \in 1..Len(envs) : envs[i] = OverrideEnv}

\* the manager was constructed last and derived last as the code does: a
\* constructor with with_override=True puts the override source first in a
\* list that has none and takes the list as it is otherwise, and clone,
\* with_namespace and with_options keep the sources of their receiver
SourcesAsGiven ==
  /\ (last.op = "construct" /\ mgr.with_override) =>
       mgr.envs = IF OverridePositions(last.cfg) = {}
                  THEN <<OverrideEnv>> \o last.cfg ELSE last.cfg
  /\ last.op \in {"with_namespace", "with_options"} =>
       /\ mgr.envs = last.self.envs
       /\ mgr.with_override = last.self.with_override

C30_WithoutOverrideIgnoresTheStack ==
  ~ mgr.with_override =>
    \A a \in PlainCalls :
      Call(mgr, a, CONFIG_OVERRIDE, cfgs) = Call(mgr, a, << >>, cfgs)

\* ----------------------------------------------------------------- C25
\* C25: pop_config on an empty override stack fails with IndexError, which
\* is not a ConfigurationError, and leaves the stack empty, so that a later
\* push and lookup behave as on a fresh stack.
C25_PopOnEmptyStackRaisesIndexError ==
  /\ (last.op = "pop_config" /\ last.cfg = << >>) => last.out.kind = "IndexError"
  /\ (last.op = "pop_config" /\ last.out.kind # "return")
     => /\ last.out.kind = "IndexError"
        /\ ~ IsInstance("IndexError", "ConfigurationError")
        /\ CONFIG_OVERRIDE = << >>
        /\ \A cfg \in OverrideChoices, a \in PlainCalls :
             Call(mgr, a, Append(CONFIG_OVERRIDE, cfg), cfgs)
               = Call(mgr, a, <<cfg>>, cfgs)

\* the stack held one dictionary, was popped, and was popped again: the
\* second pop failed on the empty stack
C25_Witness_PoppedOnceTooOften ==
  /\ last.op = "pop_config" /\ last.out.kind = "IndexError"
  /\ last.cfg = << >> /\ CONFIG_OVERRIDE = << >>

\* ---------------------------------------------------------------- threads
\* Two threads, each running one "with config_override(**cfg):" block on
\* the module-level stack.  list.append and list.pop are single steps; the
\* threads are switched between them.
Threads == {"t1", "t2"}

\* the dictionary of the block of a thread
ThreadCfg(t) == [key \in {s_K} |-> IF t = "t1" THEN "1" ELSE "2"]

\* _CONFIG_OVERRIDE after pop_config() of a block whose dictionary is cfg:
\* list.pop() takes the last element, whichever block pushed it
stack_after_pop_config_removes_own(stack, cfg) ==
  LET own == {i \in 1..Len(stack) : stack[i] = cfg}
  IN IF own = {} THEN SubSeq(stack, 1, Len(stack) - 1)
     ELSE [i \in 1..(Len(stack) - 1) |->
             IF i < CHOOSE m \in own : \A n \in own : n <= m
             THEN stack[i] ELSE stack[i + 1]]

stack_after_pop_config(stack, cfg) == SubSeq(stack, 1, Len(stack) - 1)

\* thread t enters its block: __enter__, push_config
ThreadEnter(t) ==
  /\ \A i \in 1..Len(blocks) : blocks[i].kind # t
  /\ CONFIG_OVERRIDE' = Append(CONFIG_OVERRIDE, ThreadCfg(t))
  /\ blocks' = Append(blocks, [cfg |-> ThreadCfg(t), kind |-> t,
                               before |-> CONFIG_OVERRIDE, open |-> TRUE])
  /\ last' = Last("thread_enter", mgr, NoArgs, PyNone, "None", ThreadCfg(t), NoOutcome)
  /\ UNCHANGED <<cfgs, mgr, bound_last, origin, caller_list, mgr_holds_caller_list>>

\* thread t leaves its block: __exit__, pop_config
ThreadExit(t) ==
  /\ \E i \in 1..Len(blocks) : blocks[i].kind = t /\ blocks[i].open
  /\ Len(CONFIG_OVERRIDE) > 0
  /\ CONFIG_OVERRIDE' = stack_after_pop_config(CONFIG_OVERRIDE, ThreadCfg(t))
  /\ blocks' = [i \in 1..Len(blocks) |->
                  IF blocks[i].kind = t THEN [blocks[i] EXCEPT !.open = FALSE]
                  ELSE blocks[i]]
  /\ last' = Last("thread_exit", mgr, NoArgs, PyNone, "None",
                  [cfg |-> ThreadCfg(t), kind |-> t, at_exit |-> CONFIG_OVERRIDE],
                  [NoOutcome EXCEPT !.kind = "return"])
  /\ UNCHANGED <<cfgs, mgr, bound_last, origin, caller_list, mgr_holds_caller_list>>

\* SpecThreads: the two blocks interleaved in every way, with lookups
\* between their steps, over sources that hold k or not
InitThreads ==
  /\ cfgs \in {<<ConfigDictEnv(d1), ConfigDictEnv(d2)>> :
                 d1 \in {<< >>, [key \in {s_k} |-> "x"]},
                 d2 \in {<< >>, [key \in {s_b} |-> "x"]}}
  /\ CONFIG_OVERRIDE = << >>
  /\ mgr = RootManager
  /\ last = Last("init", RootManager, NoArgs, PyNone, "None", << >>, NoOutcome)
  /\ bound_last = "None"
  /\ blocks = << >>
  /\ origin = RootManager
  /\ caller_list = RootManager.envs
  /\ mgr_holds_caller_list = TRUE

NextThreads ==
  \/ \E t \in Threads : ThreadEnter(t)
  \/ \E t \in Threads : ThreadExit(t)
  \/ \E a \in {c \in PlainCalls : c.key \in {s_k, s_b}} : DoCall(a)

SpecThreads == InitThreads /\ [][NextThreads]_vars

\* ----------------------------------------------------------------- C26
\* manager("k")
LookupOfK == CallArgs(s_k, PyNone, NO_VALUE, TRUE, PyNone, "", "str", TRUE, FALSE)

OnStack(cfg) == \E i \in 1..Len(CONFIG_OVERRIDE) : CONFIG_OVERRIDE[i] = cfg

\* the blocks that are still open, and those already left
OpenBlocks == {blocks[i] : i \in {j \in 1..Len(blocks) : blocks[j].open}}
ExitedBlocks == {blocks[i] : i \in {j \in 1..Len(blocks) : ~ blocks[j].open}}

\* a block is open, its dictionary is not on the stack, the dictionary of a
\* block already left is, and a lookup does not return the value the open
\* block overrides k with
NestingCorrupted ==
  \E b \in OpenBlocks, e \in ExitedBlocks :
    /\ ~ OnStack(b.cfg) /\ OnStack(e.cfg)
    /\ CallNow(mgr, LookupOfK).val # PyStr(b.cfg[s_K])

\* C26: when two threads each run a config_override with-block on the
\* shared stack, an exit removes the dictionary pushed last, whichever
\* block pushed it; in the interleavings where that is the dictionary of
\* the other thread, whose block is still open, a lookup inside the open
\* block does not return that block's override value while the dictionary
\* of the block already left is still on the stack.
C26_ExitRemovesTheLastPushedDictionary ==
  last.op = "thread_exit" =>
    /\ CONFIG_OVERRIDE = SubSeq(last.cfg.at_exit, 1, Len(last.cfg.at_exit) - 1)
    /\ (/\ last.cfg.at_exit[Len(last.cfg.at_exit)] # last.cfg.cfg
        /\ \E b \in OpenBlocks : b.cfg = last.cfg.at_exit[Len(last.cfg.at_exit)])
       => NestingCorrupted

\* t1 entered, t2 entered, t1 left: the stack holds t1's dictionary only,
\* t2's block is open and a lookup of k returns t1's value
C26_Witness_OtherThreadsDictionaryRemoved ==
  /\ last.op = "thread_exit" /\ last.cfg.kind = "t1"
  /\ CONFIG_OVERRIDE = <<ThreadCfg("t1")>>
  /\ NestingCorrupted
  /\ CallNow(mgr, LookupOfK).val = PyStr("1")

\* --------------------------------------------------------------- messages
\* manager(key, default=..., doc=..., parser=..., alternate_keys=...) with
\* and without option documentation, with a key that is the empty string
\* among the keys
MsgCalls ==
  {CallArgs(key, namespace, default, TRUE, alts, doc, parser, TRUE, FALSE) :
     key \in {s_k, s_empty},
     namespace \in {PyNone, PyStr(s_a)},
     default \in {NO_VALUE, PyStr("x")},
     alts \in {PyNone, PyList(<<s_root_b>>)},
     doc \in {"", "Port to listen on."},
     parser \in {"int", "bool"}}

\* the doc argument of ConfigManager(...)
ManagerDocs == {"", "See http://example.com/configuration"}

\* SpecMessages: lookups that fail, on managers with and without project
\* documentation, unbound, bound to Foo and under a namespace, over sources
\* that lack the key or hold a string for it that is not a numeral
InitMessages ==
  /\ cfgs \in {<<ConfigDictEnv(d1), ConfigDictEnv(d2)>> :
                 d1 \in {<< >>, [key \in {s_k} |-> "x"]},
                 d2 \in {[key \in {s_b} |-> "x"]}}
  /\ CONFIG_OVERRIDE = << >>
  /\ mgr \in {ConfigManager(<<1, 2>>, doc, TRUE) : doc \in ManagerDocs}
  /\ last = Last("init", mgr, NoArgs, PyNone, "None", << >>, NoOutcome)
  /\ bound_last = "None"
  /\ blocks = << >>
  /\ origin = mgr
  /\ caller_list = mgr.envs
  /\ mgr_holds_caller_list = TRUE

NextMessages ==
  \/ \E a \in MsgCalls : DoCall(a)
  \/ \E namespace \in {PyStr(s_a)} : DoWithNamespace(namespace)
  \/ \E component \in {"Foo"} : DoWithOptions(component)

SpecMessages == InitMessages /\ [][NextMessages]_vars

\* ----------------------------------------------------------------- C27
\* the last operation was a lookup that raised an error with a built message
ErrorWithMessage ==
  /\ last.op = "call"
  /\ last.out.kind \in {"InvalidValueError", "ConfigurationMissingError"}

\* the option documentation of the last lookup: the option's on a bound
\* manager, the caller's otherwise
DocOfCall ==
  IF last.self.bound_component = "None" THEN last.a.doc
  ELSE OptionOf(last.self.bound_component_options, KeyOfCall).doc

\* the four parts of a message, for the canonical key K; a part that has
\* nothing to say is empty
ExceptionPart ==
  IF last.out.kind = "InvalidValueError"
  THEN <<RaisedByParser, ": ">> \o exc_value(ParserApplied, ParsedString)
         \o (IF ValueHits(FALSE) = {} THEN <<" (default value)">> ELSE << >>)
  ELSE << >>

RequiresPart(K) ==
  K \o <<" requires a value parseable by ">> \o qualname(ParserApplied)

OptionDocPart(K) ==
  IF DocOfCall = "" THEN << >> ELSE K \o <<" docs: ", DocOfCall>>

ProjectDocPart ==
  IF last.self.doc = "" THEN << >> ELSE <<"Project docs: ", last.self.doc>>

NonEmptyParts(parts) == SelectSeq(parts, LAMBDA part : Len(part) > 0)

\* the canonical forms of the key the error carries: in the namespace the
\* error carries, and at the root
MessageKeys ==
  {generate_uppercase_key(last.out.key, ns) : ns \in {PyNone, last.out.namespace}}

FourPartMessage ==
  \E K \in MessageKeys :
    last.out.text = JoinLines(NonEmptyParts(<<ExceptionPart, RequiresPart(K),
                                              OptionDocPart(K), ProjectDocPart>>))

\* C27 as stated: the message of an InvalidValueError is the newline-join,
\* in this order and skipping empty parts, of "<type name>: <message>" (with
\* " (default value)" when the default failed to parse), "<KEY> requires a
\* value parseable by <parser name>", "<KEY> docs: <option doc>" and
\* "Project docs: <manager doc>"; the message of a ConfigurationMissingError
\* is the same sequence without the first part.
C27_MessageIsJoinOfFourParts == ErrorWithMessage => FourPartMessage

\* C27 (amended): the same for every lookup whose key is not the empty
\* string; when the key is the empty string the message leaves out both
\* lines that name the key, the option documentation with them, and is the
\* join of the first and the last part.
C27_MessageIsJoinOfFourPartsForNonEmptyKey ==
  ErrorWithMessage =>
    IF Len(last.out.key) > 0 THEN FourPartMessage
    ELSE last.out.text = JoinLines(NonEmptyParts(<<ExceptionPart, ProjectDocPart>>))

\* a default that does not parse, reported with all four parts: four lines,
\* the first ending in " (default value)"
C27_Witness_AllFourPartsPresent ==
  /\ ErrorWithMessage
  /\ last.out.kind = "InvalidValueError"
  /\ ValueHits(FALSE) = {}
  /\ DocOfCall # "" /\ last.self.doc # ""
  /\ Len(SelectSeq(last.out.text, LAMBDA piece : piece = "\n")) = 3
  /\ \E i \in 1..Len(last.out.text) :
       /\ last.out.text[i] = " (default value)"
       /\ last.out.text[i + 1] = "\n"

\* ----------------------------------------------------------------- C29
\* the canonical form of the key the error carries in the namespace the
\* error carries
KeyOfError == generate_uppercase_key(last.out.key, last.out.namespace)

\* C29: the canonical key named in the message of a
\* ConfigurationMissingError or InvalidValueError is
\* generate_uppercase_key(error.key, error.namespace), the canonical form of
\* the primary key in the lookup namespace, for every lookup that names a
\* key in its message, lookups with a root: alternate key and lookups that
\* took the failing value from an alternate key among them.
C29_MessageNamesKeyOfError ==
  (ErrorWithMessage /\ Len(last.out.key) > 0)
  => last.out.text =
       JoinLines(NonEmptyParts(<<ExceptionPart, RequiresPart(KeyOfError),
                                 OptionDocPart(KeyOfError), ProjectDocPart>>))

\* --------------------------------------------------------------- defaults
\* manager(key), manager(key, default=...) with a default that is a string,
\* an int or a bool
TypedCalls ==
  {CallArgs(key, namespace, default, TRUE, PyNone, "", parser, raise_error, FALSE) :
     key \in Keys, namespace \in {PyNone, PyStr(s_a)},
     default \in {NO_VALUE, PyStr("1"), PyInt(1), PyBool(TRUE)},
     parser \in {"int", "bool", "str"}, raise_error \in BOOLEAN}

\* SpecDefaults: lookups on the root manager and on managers bound to Typed,
\* a component whose options k and b have an int and a bool as default, and
\* to Foo, whose defaults are strings, over sources that hold or lack k
InitDefaults ==
  /\ cfgs \in {<<ConfigDictEnv(d1), ConfigDictEnv(<< >>)>> :
                 d1 \in {<< >>, [key \in {s_k} |-> "2"]}}
  /\ CONFIG_OVERRIDE = << >>
  /\ mgr = RootManager
  /\ last = Last("init", RootManager, NoArgs, PyNone, "None", << >>, NoOutcome)
  /\ bound_last = "None"
  /\ blocks = << >>
  /\ origin = RootManager
  /\ caller_list = RootManager.envs
  /\ mgr_holds_caller_list = TRUE

NextDefaults ==
  \/ \E a \in TypedCalls : DoCall(a)
  \/ \E component \in {"Typed", "Foo"} : DoWithOptions(component)

SpecDefaults == InitDefaults /\ [][NextDefaults]_vars

\* ----------------------------------------------------------------- C28
\* the last operation was a lookup whose default is neither NO_VALUE nor a
\* string: the caller's, or on a bound manager that of the option asked for
DefaultIsNoString ==
  /\ last.op = "call"
  /\ \/ ~ default_is_acceptable(last.a.default)
     \/ /\ last.self.bound_component # "None"
        /\ HasOption(last.self.bound_component_options, KeyOfCall)
        /\ ~ default_is_acceptable(DefaultOfCall)

\* C28: every default value handed to a parser is a string: a lookup on a
\* bound manager for an Option whose default is neither NO_VALUE nor a
\* string raises ConfigurationError, as a lookup with a non-string default
\* passed to manager(...) does, and returns nothing.
C28_NonStringDefaultRejected ==
  DefaultIsNoString => last.out.kind = "ConfigurationError"

====
